---- MODULE Spec2Model ----
(***************************************************************************)
(* Conversa: the chat-turn engine (POST /api/chat/message), the explicit   *)
(* conversation creation (POST /api/chat/conversation), the usage limiter  *)
(* (checkUsageLimits / checkTenantLimits) and the model routing of         *)
(* AIService (detectComplexity, selectModelForTenant, generateResponse).   *)
(*                                                                         *)
(* The database is the only shared state.  Every request is an async task  *)
(* whose steps are separated by its awaits on the database or on a         *)
(* provider; one action of the model is one such step together with the    *)
(* synchronous code that follows it up to the next await.                  *)
(***************************************************************************)
EXTENDS Integers, Sequences, FiniteSets, TLC

(* ---------------------------------------------------------------------- *)
(* Bounds                                                                  *)
(* ---------------------------------------------------------------------- *)
\* number of POST /message requests of one behaviour
MaxTurns == 2
\* number of POST /conversation requests of one behaviour
MaxExplicit == 1

\* largest limit and largest usage count checkTenantLimits is applied to
MaxLimit == 3
MaxUsed == 4

\* largest number of messages a conversation holds before the first request
MaxHistory == 12

\* longest message, most question marks and longest padding detectComplexity
\* is applied to
MaxLength == 202
MaxQuestions == 4
MaxPad == 2
MaxDuration == 2

Turns == 1..MaxTurns

\* number of PUT /conversation/:id/close and of POST /transfer-to-human
\* requests of one behaviour
MaxCloses == 1
MaxTransfers == 1

Transfers == 1..MaxTransfers
MaxTenants == 2
Subscriptions == 1..MaxTenants

(* ---------------------------------------------------------------------- *)
(* Identifiers.  Prisma generates every primary key with cuid(); the zod   *)
(* schemas of the chat routes accept only strings in UUID format.  An id   *)
(* is modelled by its format and a serial number.                          *)
(* ---------------------------------------------------------------------- *)
NoId == [fmt |-> "none", n |-> 0]

Uuid(k) == [fmt |-> "uuid", n |-> k]

\* @default(cuid()): a fresh id, distinct from every id of the table
cuid(table) == [fmt |-> "cuid", n |-> Len(table) + 1]

\* z.string().uuid()
isUuid(id) == id.fmt = "uuid"

(* ---------------------------------------------------------------------- *)
(* Rows that exist before the first request: two tenants, their chatbots   *)
(* and widgets.  None of them is changed by the chat routes.  A widget     *)
(* whose id is in UUID format is a row inserted with an explicit id; the   *)
(* third widget has an id as widget.create generates it, and every         *)
(* POST /message for it ends in the handler's body validation.             *)
(* ---------------------------------------------------------------------- *)
TenantIds == {"T1", "T2", "T3"}

\* tenant rows: plan and the limits JSON (-1 = unlimited)
Tenant ==
  [t \in TenantIds |->
     IF t = "T1"
       THEN [id |-> "T1", name |-> "Acme", plan |-> "starter", isActive |-> TRUE,
             limits |-> [conversations |-> 2, messages |-> 2]]
     ELSE IF t = "T2"
       THEN [id |-> "T2", name |-> "Bolt", plan |-> "business", isActive |-> TRUE,
             limits |-> [conversations |-> -1, messages |-> -1]]
       ELSE [id |-> "T3", name |-> "Gone", plan |-> "starter", isActive |-> FALSE,
             limits |-> [conversations |-> 2, messages |-> 2]]]

\* widget rows, each with its chatbot row joined
Widgets ==
  { [id |-> Uuid(1), tenantId |-> "T1", isActive |-> TRUE,
     chatbot |-> [id |-> "B1", isActive |-> TRUE, systemPrompt |-> "P1", model |-> "gpt-4"]],
    [id |-> Uuid(2), tenantId |-> "T2", isActive |-> TRUE,
     chatbot |-> [id |-> "B2", isActive |-> TRUE, systemPrompt |-> "P2", model |-> "gpt-4"]],
    [id |-> [fmt |-> "cuid", n |-> 3], tenantId |-> "T1", isActive |-> TRUE,
     chatbot |-> [id |-> "B1", isActive |-> TRUE, systemPrompt |-> "P1", model |-> "gpt-4"]] }

WidgetIds == { w.id : w \in Widgets }

\* widget rows no request is served for: a deactivated widget, a widget of the
\* suspended tenant, and a widget whose chatbot is deactivated
BrokenWidgets ==
  { [id |-> Uuid(4), tenantId |-> "T1", isActive |-> FALSE,
     chatbot |-> [id |-> "B1", isActive |-> TRUE, systemPrompt |-> "P1", model |-> "gpt-4"]],
    [id |-> Uuid(5), tenantId |-> "T3", isActive |-> TRUE,
     chatbot |-> [id |-> "B3", isActive |-> TRUE, systemPrompt |-> "P3", model |-> "gpt-4"]],
    [id |-> Uuid(6), tenantId |-> "T2", isActive |-> TRUE,
     chatbot |-> [id |-> "B4", isActive |-> FALSE, systemPrompt |-> "P4", model |-> "gpt-4"]] }

AllWidgets == Widgets \cup BrokenWidgets

widgetExists(id) == \E w \in AllWidgets : w.id = id

\* widget.findUnique({ where: { id } })
findWidget(id) == CHOOSE w \in AllWidgets : w.id = id

(* ---------------------------------------------------------------------- *)
(* Messages a client sends, as character sequences.                        *)
(* ---------------------------------------------------------------------- *)
MsgHola == << "H", "o", "l", "a" >>
MsgQue  == << "q", "u", "e", "?" >>

Bodies == { MsgHola, MsgQue }

(* ---------------------------------------------------------------------- *)
(* AIService: complexity classifier and model selector                     *)
(* ---------------------------------------------------------------------- *)
UpperCase == << "A", "B", "C", "D", "E", "F", "G", "H", "I", "J", "K", "L", "M", "N", "O", "P", "Q", "R", "S", "T", "U", "V", "W", "X", "Y", "Z" >>
LowerCase == << "a", "b", "c", "d", "e", "f", "g", "h", "i", "j", "k", "l", "m", "n", "o", "p", "q", "r", "s", "t", "u", "v", "w", "x", "y", "z" >>

\* String.prototype.toLowerCase on the letters A-Z
toLowerCase(s) ==
  [i \in 1..Len(s) |->
     IF \E j \in 1..Len(UpperCase) : UpperCase[j] = s[i]
       THEN LowerCase[CHOOSE j \in 1..Len(UpperCase) : UpperCase[j] = s[i]]
       ELSE s[i]]

\* the alternatives of /analiz|compar|evalua|explicar|detallar|complejo/
Keywords ==
  { << "a", "n", "a", "l", "i", "z" >>,
    << "c", "o", "m", "p", "a", "r" >>,
    << "e", "v", "a", "l", "u", "a" >>,
    << "e", "x", "p", "l", "i", "c", "a", "r" >>,
    << "d", "e", "t", "a", "l", "l", "a", "r" >>,
    << "c", "o", "m", "p", "l", "e", "j", "o" >> }

\* RegExp.prototype.test for an alternation of literals: a substring search
includes(s, k) ==
  \E i \in 1..(Len(s) - Len(k) + 1) : SubSeq(s, i, i + Len(k) - 1) = k

\* (message.match(/\?/g) || []).length
countQuestions(s) == Cardinality({ i \in 1..Len(s) : s[i] = "?" })

\* variant: the keywords are searched in the message as it was typed
detectComplexity_caseSensitive(message) ==
  LET length == Len(message)
      hasQuestions == countQuestions(message)
      hasKeywords == \E k \in Keywords : includes(message, k)
  IN  IF length > 200 \/ hasQuestions > 2 \/ hasKeywords THEN "complex"
      ELSE IF length > 50 \/ hasQuestions > 0 THEN "medium"
      ELSE "simple"

\* variant: the thresholds are inclusive
detectComplexity_inclusive(message) ==
  LET length == Len(message)
      hasQuestions == countQuestions(message)
      hasKeywords == \E k \in Keywords : includes(toLowerCase(message), k)
  IN  IF length >= 200 \/ hasQuestions >= 2 \/ hasKeywords THEN "complex"
      ELSE IF length >= 50 \/ hasQuestions > 0 THEN "medium"
      ELSE "simple"

detectComplexity(message) ==
  LET length == Len(message)
      hasQuestions == countQuestions(message)
      hasKeywords == \E k \in Keywords : includes(toLowerCase(message), k)
  IN  IF length > 200 \/ hasQuestions > 2 \/ hasKeywords THEN "complex"
      ELSE IF length > 50 \/ hasQuestions > 0 THEN "medium"
      ELSE "simple"

\* variant: the rows of business and professional are exchanged
selectModelForTenant_swapped(plan, complexity) ==
  IF plan = "enterprise"
    THEN (IF complexity = "complex" THEN "claude-3.5-sonnet" ELSE "gpt-4-turbo")
  ELSE IF plan = "professional"
    THEN (IF complexity = "simple" THEN "gemini-pro" ELSE "gpt-4")
  ELSE IF plan = "business"
    THEN (IF complexity = "complex" THEN "gpt-4" ELSE "gemini-pro")
  ELSE "gemini-pro"

selectModelForTenant(plan, complexity) ==
  IF plan = "enterprise"
    THEN (IF complexity = "complex" THEN "claude-3.5-sonnet" ELSE "gpt-4-turbo")
  ELSE IF plan = "business"
    THEN (IF complexity = "simple" THEN "gemini-pro" ELSE "gpt-4")
  ELSE IF plan = "professional"
    THEN (IF complexity = "complex" THEN "gpt-4" ELSE "gemini-pro")
  ELSE "gemini-pro"

\* variant: the fallback is the larger OpenAI model
FallbackModel_turbo == "gpt-4-turbo"

\* the model generateResponse falls back to
FallbackModel == "gpt-4"

(* ---------------------------------------------------------------------- *)
(* DatabaseService.checkTenantLimits: the record computed from the limits  *)
(* JSON and the two current-month counts                                   *)
(* ---------------------------------------------------------------------- *)
\* limits.x || 0
orZero(x) == IF x = 0 THEN 0 ELSE x

\* variant: a count equal to the limit is not yet exceeded
checkTenantLimits_gt(limits, conversationCount, messageCount) ==
  [conversations |->
     [used |-> conversationCount,
      limit |-> orZero(limits.conversations),
      exceeded |-> limits.conversations > 0 /\ conversationCount > limits.conversations],
   messages |->
     [used |-> messageCount,
      limit |-> orZero(limits.messages),
      exceeded |-> limits.messages > 0 /\ messageCount > limits.messages]]

checkTenantLimits(limits, conversationCount, messageCount) ==
  [conversations |->
     [used |-> conversationCount,
      limit |-> orZero(limits.conversations),
      exceeded |-> limits.conversations > 0 /\ conversationCount >= limits.conversations],
   messages |->
     [used |-> messageCount,
      limit |-> orZero(limits.messages),
      exceeded |-> limits.messages > 0 /\ messageCount >= limits.messages]]

(* ---------------------------------------------------------------------- *)
(* State                                                                   *)
(* ---------------------------------------------------------------------- *)
VARIABLES
  conversations,  \* table conversations, in creation order
  messages,       \* table messages, in creation (createdAt) order
  turn,           \* the POST /message requests: position and local values
  probe,          \* arguments and result of one call of a function taken alone
  support,        \* the close and transfer-to-human requests served so far
  tenants,        \* table tenants of the accounts made by signup, and the
                  \* billing webhooks still between two of their updates
  window          \* history: the largest number of POST /message requests
                  \* seen at one time between the usage pre-check and their
                  \* conversation (kept only where it is switched on)

vars == << conversations, messages, turn, probe, support, tenants, window >>

\* the conversation that exists before the first request, created this month;
\* its id is in UUID format, so a request can name it and pass the validation
SeedConversation ==
  [id |-> Uuid(9), tenantId |-> "T1", widgetId |-> Uuid(1), chatbotId |-> "B1",
   userId |-> "visitor", status |-> "ACTIVE", createdAt |-> 0, updatedAt |-> 0, by |-> -1]

NoResponse ==
  [status |-> 0, used |-> -1, limit |-> -1, conversationId |-> NoId,
   messageId |-> NoId, model |-> "", responseTime |-> 0, error |-> << >>,
   details |-> << >>]

NoLimits ==
  [conversations |-> [used |-> -1, limit |-> 0, exceeded |-> FALSE],
   messages |-> [used |-> -1, limit |-> 0, exceeded |-> FALSE]]

NoContext == [systemPrompt |-> "", conversationHistory |-> << >>, companyInfo |-> ""]

IdleTurn ==
  [pc |-> "idle",
   body |-> [message |-> << >>, conversationId |-> NoId, widgetId |-> NoId, userId |-> ""],
   tenantId |-> "",
   conversationCount |-> -1,
   messageCount |-> -1,
   limits |-> NoLimits,
   conversation |-> NoId,
   created |-> FALSE,
   snapshot |-> << >>,
   resolvedAt |-> 0,
   userMessage |-> NoId,
   context |-> NoContext,
   model |-> "",
   aiModel |-> "",
   calls |-> << >>,
   clock |-> 0,
   aiResponse |-> [content |-> << >>, model |-> "", responseTime |-> 0],
   botMessage |-> NoId,
   thrown |-> << >>,
   res |-> NoResponse]

NoProbe ==
  [limits |-> [conversations |-> 0, messages |-> 0],
   conversationCount |-> 0, messageCount |-> 0, called |-> FALSE, result |-> NoLimits]

IdleTransfer == [pc |-> "idle", conversationId |-> NoId, status |-> 0]

NoSupport == [closes |-> 0, transfer |-> [k \in Transfers |-> IdleTransfer]]

\* the history of the pre-check window, not kept
NoWindow == [on |-> FALSE, admitted |-> 0, counting |-> 0]

\* no account has signed up yet; row k belongs to Stripe subscription k
NoTenant ==
  [exists |-> FALSE, plan |-> "", features |-> << >>,
   limits |-> [conversations |-> 0, messages |-> 0, chatbots |-> 0],
   isActive |-> FALSE, subscriptionStatus |-> "", deactivating |-> FALSE]

NoTenants == [k \in Subscriptions |-> NoTenant]

Init ==
  /\ conversations = << SeedConversation >>
  /\ messages = << >>
  /\ turn = [r \in Turns |-> IdleTurn]
  /\ support = NoSupport
  /\ tenants = NoTenants
  /\ window = NoWindow
  /\ probe = NoProbe

(* ---------------------------------------------------------------------- *)
(* Queries of the persistence layer                                        *)
(* ---------------------------------------------------------------------- *)
RECURSIVE reverse(_)
reverse(s) == IF s = << >> THEN << >> ELSE Append(reverse(Tail(s)), Head(s))

\* take: 10 of the include
HistoryTake == 10

conversationExists(id) == \E i \in 1..Len(conversations) : conversations[i].id = id

\* conversation.findUnique({ where: { id } })
findConversation(id) ==
  conversations[CHOOSE i \in 1..Len(conversations) : conversations[i].id = id]

\* variant: the include takes the ten oldest rows (orderBy createdAt 'asc')
lastMessages_oldest(msgs, id) ==
  LET own == SelectSeq(msgs, LAMBDA m : m.conversationId = id)
  IN  reverse(SubSeq(own, 1, IF Len(own) < HistoryTake THEN Len(own) ELSE HistoryTake))

\* include: { messages: { orderBy: { createdAt: 'desc' }, take: 10 } }
lastMessages(msgs, id) ==
  LET own == SelectSeq(msgs, LAMBDA m : m.conversationId = id)
      desc == reverse(own)
  IN  SubSeq(desc, 1, IF Len(desc) < HistoryTake THEN Len(desc) ELSE HistoryTake)

tenantOfConversation(id) == findConversation(id).tenantId

\* Time is counted in messages: the message in row i of the table was created
\* at time i, and a write made when the table holds k rows bears the time k
\* (after message k, before message k + 1).
now == Len(messages)

\* A month of the server's calendar has MonthLength units of this time, and
\* the requests of a run fall in the month that began at time 0.  The server's
\* clock is ahead of the stored (UTC) times by its zone.
MonthLength == 30
ServerZone == 0

\* currentMonth.setDate(1); currentMonth.setHours(0, 0, 0, 0): the instant at
\* which the month of date began on the server's calendar
currentMonth(date, zone) == ((date + zone) \div MonthLength) * MonthLength - zone

\* variant: a conversation created at the very start of the month is left out
conversationsSince_after(t, since) ==
  Cardinality({ i \in 1..Len(conversations) :
                  conversations[i].tenantId = t /\ conversations[i].createdAt > since })

\* conversation.count({ where: { tenantId, createdAt: { gte: currentMonth } } })
conversationsSince(t, since) ==
  Cardinality({ i \in 1..Len(conversations) :
                  conversations[i].tenantId = t /\ conversations[i].createdAt >= since })

\* message.count({ where: { conversation: { tenantId }, createdAt: { gte: currentMonth } } })
messagesSince(t, since) ==
  Cardinality({ i \in 1..Len(messages) :
                  /\ tenantOfConversation(messages[i].conversationId) = t
                  /\ messages[i].createdAt >= since })

\* the two counts of checkTenantLimits at the current time
countConversations(t) == conversationsSince(t, currentMonth(now, ServerZone))

countMessages(t) == messagesSince(t, currentMonth(now, ServerZone))

\* variant: the id is derived from the messages the request loaded
newMessageId_stale(msgs, r) == [fmt |-> "cuid", n |-> Len(turn[r].snapshot) + 1]

\* the id message.create gives the new row
newMessageId(msgs, r) == cuid(msgs)

\* conversationHistory: the included messages, oldest first, sender mapped to a role
conversationHistory(included) ==
  LET chrono == reverse(included)
  IN  [i \in 1..Len(chrono) |->
         [role |-> IF chrono[i].sender = "USER" THEN "user" ELSE "assistant",
          content |-> chrono[i].content]]

(* ---------------------------------------------------------------------- *)
(* POST /api/chat/message                                                  *)
(* ---------------------------------------------------------------------- *)
Finish(rec, response) == [rec EXCEPT !.pc = "done", !.res = response]

Status(code) == [NoResponse EXCEPT !.status = code]

\* ids a client can put into a request: nothing, the id of a conversation it
\* was given, or a well-formed id of no conversation
KnownConversationIds == { conversations[i].id : i \in 1..Len(conversations) }

RequestConversationIds == {NoId, Uuid(0)} \cup KnownConversationIds

\* userId of the body: absent ("") or given.  The handler reads it only when
\* it creates the conversation, so a request that names a conversation is
\* taken without it.
RequestUserIds == {"", "u1"}

\* a request arrives (tenantCors only sets response headers; chatLimiter
\* admits 30 requests a minute, more than a behaviour has).  The requests are
\* interchangeable, so they are numbered in the order of their arrival.
Receive(r) ==
  /\ turn[r].pc = "idle"
  /\ \A q \in Turns : q < r => turn[q].pc # "idle"
  /\ \E w \in WidgetIds, c \in RequestConversationIds, m \in Bodies,
        u \in RequestUserIds :
       /\ c # NoId => u = ""
       /\ turn' = [turn EXCEPT ![r] =
                     [IdleTurn EXCEPT
                        !.pc = "validateWidgetAccess",
                        !.body = [message |-> m, conversationId |-> c,
                                  widgetId |-> w, userId |-> u]]]
  /\ UNCHANGED << conversations, messages, probe, support, tenants, window >>

\* middleware validateWidgetAccess
ValidateWidgetAccess(r) ==
  LET rec == turn[r]
      widgetId == rec.body.widgetId
  IN  /\ rec.pc = "validateWidgetAccess"
      /\ turn' = [turn EXCEPT ![r] =
           IF widgetId = NoId THEN Finish(rec, Status(400))
           ELSE IF ~widgetExists(widgetId) THEN Finish(rec, Status(404))
           ELSE IF ~findWidget(widgetId).isActive THEN Finish(rec, Status(403))
           ELSE IF ~Tenant[findWidget(widgetId).tenantId].isActive
             THEN Finish(rec, Status(403))
           ELSE [rec EXCEPT !.pc = "checkTenantLimits",
                            !.tenantId = findWidget(widgetId).tenantId]]
      /\ UNCHANGED << conversations, messages, probe, support, tenants, window >>

\* the limit the route is mounted with: checkUsageLimits('conversations')
LimitType == "conversations"

\* variant: the middleware refuses only above the limit
usageExceeded_above(limits, limitType) ==
  limits[limitType].limit > 0 /\ limits[limitType].used > limits[limitType].limit

\* variant: the middleware looks at the messages entry
usageExceeded_messages(limits, limitType) == limits["messages"].exceeded

\* variant: the middleware lets every request pass
usageExceeded_never(limits, limitType) == FALSE

\* checkUsageLimits: limit && limit.exceeded
usageExceeded(limits, limitType) == limits[limitType].exceeded

\* variant: the schema puts no upper bound on the message
chatMessageSchema_noMax(body) ==
  /\ Len(body.message) >= 1
  /\ body.conversationId # NoId => isUuid(body.conversationId)
  /\ isUuid(body.widgetId)

\* chatMessageSchema.parse(req.body)
chatMessageSchema(body) ==
  /\ Len(body.message) >= 1
  /\ Len(body.message) <= 1000
  /\ body.conversationId # NoId => isUuid(body.conversationId)
  /\ isUuid(body.widgetId)

\* variant: the handler does not look at the chatbot's isActive
AfterCounts_anyChatbot(rec) ==
  LET limits == checkTenantLimits(Tenant[rec.tenantId].limits,
                                  rec.conversationCount, rec.messageCount)
      checked == [rec EXCEPT !.limits = limits]
      widget == findWidget(rec.body.widgetId)
  IN  IF usageExceeded(limits, LimitType)
        THEN Finish(checked, [Status(429) EXCEPT !.used = limits[LimitType].used,
                                                 !.limit = limits[LimitType].limit])
      ELSE IF ~chatMessageSchema(rec.body) THEN Finish(checked, Status(400))
      ELSE IF ~widget.isActive THEN Finish(checked, Status(404))
      ELSE [checked EXCEPT !.pc = "resolveConversation"]

\* variant: the gate is applied only to requests that name no conversation
AfterCounts_newOnly(rec) ==
  LET limits == checkTenantLimits(Tenant[rec.tenantId].limits,
                                  rec.conversationCount, rec.messageCount)
      checked == [rec EXCEPT !.limits = limits]
      widget == findWidget(rec.body.widgetId)
  IN  IF rec.body.conversationId = NoId /\ usageExceeded(limits, LimitType)
        THEN Finish(checked, [Status(429) EXCEPT !.used = limits[LimitType].used,
                                                 !.limit = limits[LimitType].limit])
      ELSE IF ~chatMessageSchema(rec.body) THEN Finish(checked, Status(400))
      ELSE IF ~widget.isActive THEN Finish(checked, Status(404))
      ELSE IF ~widget.chatbot.isActive THEN Finish(checked, Status(503))
      ELSE [checked EXCEPT !.pc = "resolveConversation"]

\* Promise.all of checkTenantLimits has resolved: the rest of checkUsageLimits
\* and, when it calls next(), the handler up to its conversation lookup
\* (body validation, widget.findUnique of the unchanged widget row)
AfterCounts(rec) ==
  LET limits == checkTenantLimits(Tenant[rec.tenantId].limits,
                                  rec.conversationCount, rec.messageCount)
      checked == [rec EXCEPT !.limits = limits]
      widget == findWidget(rec.body.widgetId)
  IN  IF usageExceeded(limits, LimitType)
        THEN Finish(checked, [Status(429) EXCEPT !.used = limits[LimitType].used,
                                                 !.limit = limits[LimitType].limit])
      ELSE IF ~chatMessageSchema(rec.body) THEN Finish(checked, Status(400))
      ELSE IF ~widget.isActive THEN Finish(checked, Status(404))
      ELSE IF ~widget.chatbot.isActive THEN Finish(checked, Status(503))
      ELSE [checked EXCEPT !.pc = "resolveConversation"]

\* request q holds a conversation count it read and has not yet resolved its
\* conversation
counting(q) ==
  turn[q].conversationCount # -1 /\ turn[q].pc \in {"checkTenantLimits", "resolveConversation"}

\* request q was admitted by the usage pre-check and has not yet resolved its
\* conversation
admitted(q) == turn[q].pc = "resolveConversation"

larger(a, b) == IF a >= b THEN a ELSE b

\* the history after request r went from its record to rec: the requests in
\* the two windows are counted with r in its new position
observed(r, rec) ==
  LET others(in(_)) == Cardinality({ q \in Turns \ {r} : in(q) })
      isCounting == rec.conversationCount # -1
                      /\ rec.pc \in {"checkTenantLimits", "resolveConversation"}
      isAdmitted == rec.pc = "resolveConversation"
  IN  IF window.on
        THEN [window EXCEPT
                !.counting = larger(@, others(counting) + (IF isCounting THEN 1 ELSE 0)),
                !.admitted = larger(@, others(admitted) + (IF isAdmitted THEN 1 ELSE 0))]
        ELSE window

\* checkTenantLimits, first query of its Promise.all
CountConversations(r) ==
  LET rec == turn[r]
      counted == [rec EXCEPT !.conversationCount = countConversations(rec.tenantId)]
      next == IF rec.messageCount = -1 THEN counted ELSE AfterCounts(counted)
  IN  /\ rec.pc = "checkTenantLimits"
      /\ rec.conversationCount = -1
      /\ turn' = [turn EXCEPT ![r] = next]
      /\ window' = observed(r, next)
      /\ UNCHANGED << conversations, messages, probe, support, tenants >>

\* checkTenantLimits, second query of its Promise.all
CountMessages(r) ==
  LET rec == turn[r]
      counted == [rec EXCEPT !.messageCount = countMessages(rec.tenantId)]
      next == IF rec.conversationCount = -1 THEN counted ELSE AfterCounts(counted)
  IN  /\ rec.pc = "checkTenantLimits"
      /\ rec.messageCount = -1
      /\ turn' = [turn EXCEPT ![r] = next]
      /\ window' = observed(r, next)
      /\ UNCHANGED << conversations, messages, probe, support, tenants >>

\* variant: a conversation is created waiting for a human agent
newConversation_pending(widget, userId, by) ==
  [id |-> cuid(conversations), tenantId |-> widget.tenantId, widgetId |-> widget.id,
   chatbotId |-> widget.chatbot.id,
   userId |-> IF userId # "" THEN userId ELSE "anonymous",
   status |-> "PENDING_TRANSFER", createdAt |-> now, updatedAt |-> now,
   by |-> by]

\* variant: the supplied userId is dropped
newConversation_anonymous(widget, userId, by) ==
  [id |-> cuid(conversations), tenantId |-> widget.tenantId, widgetId |-> widget.id,
   chatbotId |-> widget.chatbot.id, userId |-> "anonymous",
   status |-> "ACTIVE", createdAt |-> now, updatedAt |-> now, by |-> by]

\* conversation.create of both routes
newConversation(widget, userId, by) ==
  [id |-> cuid(conversations), tenantId |-> widget.tenantId, widgetId |-> widget.id,
   chatbotId |-> widget.chatbot.id,
   userId |-> IF userId # "" THEN userId ELSE "anonymous",
   status |-> "ACTIVE", createdAt |-> now, updatedAt |-> now, by |-> by]

\* variant: a conversation that is not ACTIVE is not found
conversationNotFound_active(id, widget) ==
  \/ ~conversationExists(id)
  \/ findConversation(id).tenantId # widget.tenantId
  \/ findConversation(id).status # "ACTIVE"

\* variant: any existing conversation is accepted, whatever its tenant
conversationNotFound_anyTenant(id, widget) == ~conversationExists(id)

\* if (!conversation || conversation.tenantId !== widget.tenantId)
conversationNotFound(id, widget) ==
  ~conversationExists(id) \/ findConversation(id).tenantId # widget.tenantId

\* "Buscar o crear conversacion"
ResolveConversation(r) ==
  LET rec == turn[r]
      id == rec.body.conversationId
      widget == findWidget(rec.body.widgetId)
      row == newConversation(widget, rec.body.userId, r)
  IN  /\ rec.pc = "resolveConversation"
      /\ IF id # NoId
           THEN /\ turn' = [turn EXCEPT ![r] =
                     IF conversationNotFound(id, widget)
                       THEN Finish(rec, Status(404))
                       ELSE [rec EXCEPT !.pc = "saveUserMessage",
                                        !.conversation = id,
                                        !.snapshot = lastMessages(messages, id),
                                        !.resolvedAt = Len(messages)]]
                /\ UNCHANGED conversations
           ELSE /\ conversations' = Append(conversations, row)
                /\ turn' = [turn EXCEPT ![r] =
                     [rec EXCEPT !.pc = "saveUserMessage",
                                 !.conversation = row.id,
                                 !.created = TRUE,
                                 !.snapshot = << >>,
                                 !.resolvedAt = Len(messages)]]
      /\ UNCHANGED << messages, probe, support, tenants, window >>

\* variant: the history is queried again when the context is built
historySource_reread(rec) == lastMessages(messages, rec.conversation)

\* conversation.messages: the rows loaded with the conversation
historySource(rec) == rec.snapshot

\* variant: the model configured for the chatbot is used
turnModel_configured(widget, message) == widget.chatbot.model

\* the model of a turn: selectModelForTenant(widget.tenant.plan, complexity)
turnModel(widget, message) ==
  selectModelForTenant(Tenant[widget.tenantId].plan, detectComplexity(message))

\* variant: the reply is generated without the USER message being stored
SaveUserMessage_skipped(r) ==
  /\ turn[r].pc = "saveUserMessage"
  /\ turn' = [turn EXCEPT ![r] = [@ EXCEPT !.pc = "generateResponse",
                                           !.model = FallbackModel,
                                           !.aiModel = FallbackModel]]
  /\ UNCHANGED << conversations, messages, probe, support, tenants, window >>

\* "Guardar mensaje del usuario", then context, complexity and model
SaveUserMessage(r) ==
  LET rec == turn[r]
      widget == findWidget(rec.body.widgetId)
      row == [id |-> newMessageId(messages, r), conversationId |-> rec.conversation,
              content |-> rec.body.message, sender |-> "USER", createdAt |-> now + 1,
              by |-> r]
      context == [systemPrompt |-> widget.chatbot.systemPrompt,
                  conversationHistory |-> conversationHistory(historySource(rec)),
                  companyInfo |-> Tenant[widget.tenantId].name]
      model == turnModel(widget, rec.body.message)
  IN  /\ rec.pc = "saveUserMessage"
      /\ messages' = Append(messages, row)
      /\ turn' = [turn EXCEPT ![r] =
           [rec EXCEPT !.pc = "generateResponse",
                       !.userMessage = row.id,
                       !.context = context,
                       !.model = model,
                       !.aiModel = model]]
      /\ UNCHANGED << conversations, probe, support, tenants, window >>

\* variant: the OpenAI case also takes the older chat model
SupportedModels_older ==
  {"gpt-4", "gpt-4-turbo", "claude-3.5-sonnet", "gemini-pro", "gpt-3.5-turbo"}

\* the cases of the switch in generateResponse
SupportedModels == {"gpt-4", "gpt-4-turbo", "claude-3.5-sonnet", "gemini-pro"}

\* what a provider answers
ReplyContent == << "o", "k" >>

\* variant: the catch block retries whatever the model
hasFallback_always(model) == TRUE

\* variant: the catch block never falls back
hasFallback_never(model) == FALSE

\* generateResponse: if (model !== 'gpt-4')
hasFallback(model) == model # FallbackModel

\* error messages, as their words
GenericAIError == << "Error", "al", "generar", "respuesta", "con", "IA" >>
LimitReachedText == << "Límite", "de", "uso", "alcanzado" >>
ProcessingErrorText == << "Error", "procesando", "el", "mensaje" >>

\* error.message?.includes(word)
mentions(message, word) == \E i \in 1..Len(message) : message[i] = word

\* what an adapter can throw: the error of the provider's SDK, whose text the
\* provider chooses
ProviderTimeout == << "Request", "timed", "out" >>
ProviderErrors ==
  {ProviderTimeout,
   << "Incorrect", "API", "key", "sk-live" >>,
   << "Has", "superado", "el", "límite", "de", "cuota" >>}

\* the error of message.create when the database rejects the insert
DatabaseError == << "Invalid", "prisma.message.create()", "invocation" >>

\* variant: generateResponse lets the adapter's error through
generateResponseError_provider(error) == error

\* catch of generateResponse without fallback left:
\* throw new Error('Error al generar respuesta con IA')
generateResponseError(error) == GenericAIError

\* variant: the catch block stores its fallback text as the bot's reply
onTurnError_reply(rec) ==
  [rec EXCEPT !.pc = "saveBotMessage",
              !.aiResponse = [content |-> ReplyContent, model |-> "",
                              responseTime |-> 0]]

\* the handler's catch block for an error of the turn: the response ...
onTurnError(rec) ==
  Finish(rec,
         IF mentions(rec.thrown, "límite")
           THEN [Status(429) EXCEPT !.error = LimitReachedText, !.details = rec.thrown]
           ELSE [Status(500) EXCEPT !.error = ProcessingErrorText])

\* variant: the failed turn is rolled back
messagesAfterError_rollback(msgs, r) == SelectSeq(msgs, LAMBDA m : m.by # r)

\* ... and the tables, which it leaves as they are
messagesAfterError(msgs, r) == msgs

\* variant: the conversation a failed turn created is deleted
conversationsAfterError_rollback(convs, r) == SelectSeq(convs, LAMBDA c : c.by # r)

\* the catch block writes nothing: the conversation the turn created stays
conversationsAfterError(convs, r) == convs

\* the model field of the AIResponse an adapter returns: the OpenAI adapter
\* returns its model argument, the other two their own name
adapterModel(model) ==
  IF model \in {"gpt-4", "gpt-4-turbo"} THEN model
  ELSE IF model = "claude-3.5-sonnet" THEN "claude-3.5-sonnet"
  ELSE "gemini-pro"

\* variant: the latency is measured from the first invocation, whose
\* Date.now() is where the turn's clock starts
startTime_first(rec) == 0

\* const startTime = Date.now(), taken as each invocation is entered; the
\* clock of a turn is the time since the handler called generateResponse
startTime(rec) == rec.clock

\* response.responseTime = Date.now() - startTime, after the adapter returned
responseTime(rec, returned) == returned - startTime(rec)

\* one execution of generateResponse(message, context, aiModel): the adapter
\* call of the model takes one of the given times and answers or fails with
\* one of the given errors; a model that is none of the four throws at once,
\* with no adapter called; a failure recurses with the fallback model or is
\* thrown to the handler
Generate(r, errors, durations) ==
  LET rec == turn[r]
      supported == rec.aiModel \in SupportedModels
      called(ok, error, took) ==
        IF supported
          THEN [rec EXCEPT !.calls = Append(@, [model |-> rec.aiModel,
                                                message |-> rec.body.message,
                                                context |-> rec.context,
                                                ok |-> ok,
                                                error |-> error,
                                                took |-> took]),
                           !.clock = @ + took]
          ELSE rec
  IN  /\ rec.pc = "generateResponse"
      /\ \E ok \in BOOLEAN, error \in errors, took \in durations :
           IF ok /\ supported
             THEN /\ turn' = [turn EXCEPT ![r] =
                       [called(ok, << >>, took) EXCEPT
                          !.pc = "saveBotMessage",
                          !.aiResponse =
                             [content |-> ReplyContent,
                              model |-> adapterModel(rec.aiModel),
                              responseTime |-> responseTime(rec, rec.clock + took)]]]
                  /\ UNCHANGED << conversations, messages >>
           ELSE IF hasFallback(rec.aiModel)
             THEN /\ turn' = [turn EXCEPT ![r] =
                       [called(FALSE, error, took) EXCEPT !.aiModel = FallbackModel]]
                  /\ UNCHANGED << conversations, messages >>
           ELSE /\ turn' = [turn EXCEPT ![r] =
                     onTurnError([called(FALSE, error, took) EXCEPT
                                    !.thrown = generateResponseError(error)])]
                /\ messages' = messagesAfterError(messages, r)
                /\ conversations' = conversationsAfterError(conversations, r)
      /\ UNCHANGED << probe, support, tenants, window >>

\* generateResponse with an adapter that fails in one way and takes one time
GenerateResponse(r) == Generate(r, {ProviderTimeout}, {MaxDuration})

\* variant: the response reports the model the selector chose
metadataModel_selected(rec) == rec.model

\* metadata.model of the response: aiResponse.model
metadataModel(rec) == rec.aiResponse.model

\* "Guardar respuesta del bot", then res.json
SaveBotMessage(r) ==
  LET rec == turn[r]
      row == [id |-> newMessageId(messages, r), conversationId |-> rec.conversation,
              content |-> rec.aiResponse.content, sender |-> "BOT",
              createdAt |-> now + 1, by |-> r]
  IN  /\ rec.pc = "saveBotMessage"
      /\ messages' = Append(messages, row)
      /\ turn' = [turn EXCEPT ![r] =
           Finish([rec EXCEPT !.botMessage = row.id],
                  [Status(200) EXCEPT !.conversationId = rec.conversation,
                                      !.messageId = row.id,
                                      !.model = metadataModel(rec),
                                      !.responseTime = rec.aiResponse.responseTime])]
      /\ UNCHANGED << conversations, probe, support, tenants, window >>

(* ---------------------------------------------------------------------- *)
(* POST /api/chat/conversation                                             *)
(* ---------------------------------------------------------------------- *)
\* conversationSchema.parse(req.body)
conversationSchema(body) == isUuid(body.widgetId)

explicitConversations ==
  Cardinality({ i \in 1..Len(conversations) : conversations[i].by = 0 })

\* the whole request; it reads only widget rows and writes one conversation
CreateConversation ==
  /\ explicitConversations < MaxExplicit
  /\ \E w \in WidgetIds :
       /\ findWidget(w).isActive
       /\ Tenant[findWidget(w).tenantId].isActive
       /\ conversationSchema([widgetId |-> w])
       /\ conversations' = Append(conversations, newConversation(findWidget(w), "", 0))
  /\ UNCHANGED << messages, turn, probe, support, tenants, window >>

(* ---------------------------------------------------------------------- *)
(* PUT /api/chat/conversation/:id/close and POST /api/chat/transfer-to-human *)
(* Neither route validates the id, looks at the tenant or reads the status. *)
(* ---------------------------------------------------------------------- *)
\* ids a client can put into these requests
SupportConversationIds == {Uuid(0)} \cup KnownConversationIds

\* conversation.update({ where: { id }, data: { status } }); @updatedAt
updateStatus(id, status) ==
  [i \in 1..Len(conversations) |->
     IF conversations[i].id = id
       THEN [conversations[i] EXCEPT !.status = status, !.updatedAt = now]
       ELSE conversations[i]]

\* variant: closing a conversation clears its messages
Close_purge ==
  /\ support.closes < MaxCloses
  /\ \E id \in SupportConversationIds :
       /\ conversations' = IF conversationExists(id) THEN updateStatus(id, "CLOSED")
                                                      ELSE conversations
       /\ messages' = SelectSeq(messages, LAMBDA m : m.conversationId # id)
  /\ support' = [support EXCEPT !.closes = @ + 1]
  /\ UNCHANGED << turn, probe, tenants, window >>

\* the whole close request.  The update of a missing row is rejected, and so
\* is an update that carries a rating: model Conversation has no such field.
Close ==
  /\ support.closes < MaxCloses
  /\ \E id \in SupportConversationIds, rating \in BOOLEAN :
       conversations' = IF conversationExists(id) /\ ~rating
                          THEN updateStatus(id, "CLOSED")
                          ELSE conversations
  /\ support' = [support EXCEPT !.closes = @ + 1]
  /\ UNCHANGED << messages, turn, probe, tenants, window >>

\* the notice the transfer writes into the conversation
TransferNotice == << "T", "e" >>

\* transfer, up to its first query: the status update
TransferUpdate(k) ==
  /\ support.transfer[k].pc = "idle"
  /\ \A j \in Transfers : j < k => support.transfer[j].pc # "idle"
  /\ \E id \in {NoId} \cup SupportConversationIds :
       IF id = NoId
         THEN /\ support' = [support EXCEPT !.transfer[k] =
                               [pc |-> "done", conversationId |-> id, status |-> 400]]
              /\ UNCHANGED conversations
       ELSE IF ~conversationExists(id)
         THEN /\ support' = [support EXCEPT !.transfer[k] =
                               [pc |-> "done", conversationId |-> id, status |-> 500]]
              /\ UNCHANGED conversations
       ELSE /\ conversations' = updateStatus(id, "PENDING_TRANSFER")
            /\ support' = [support EXCEPT !.transfer[k] =
                             [pc |-> "createMessage", conversationId |-> id, status |-> 0]]
  /\ UNCHANGED << messages, turn, probe, tenants, window >>

\* transfer, second query: the automatic message, then res.json
TransferMessage(k) ==
  LET req == support.transfer[k]
      row == [id |-> cuid(messages), conversationId |-> req.conversationId,
              content |-> TransferNotice, sender |-> "BOT", createdAt |-> now + 1,
              by |-> -2]
  IN  /\ req.pc = "createMessage"
      /\ messages' = Append(messages, row)
      /\ support' = [support EXCEPT !.transfer[k] = [req EXCEPT !.pc = "done",
                                                                !.status = 200]]
      /\ UNCHANGED << conversations, turn, probe, tenants, window >>

Next ==
  \/ \E r \in Turns : Receive(r)
  \/ \E r \in Turns : ValidateWidgetAccess(r)
  \/ \E r \in Turns : CountConversations(r)
  \/ \E r \in Turns : CountMessages(r)
  \/ \E r \in Turns : ResolveConversation(r)
  \/ \E r \in Turns : SaveUserMessage(r)
  \/ \E r \in Turns : GenerateResponse(r)
  \/ \E r \in Turns : SaveBotMessage(r)
  \/ CreateConversation

Spec == Init /\ [][Next]_vars

\* The steps the server takes by itself once a request is in: middleware and
\* database queries return, so each of these steps is taken when it can be.
\* The adapter call is awaited with no timeout (the clients are built with an
\* apiKey only, the calls pass no timeout or abort signal), so the step after
\* it is taken only if the provider answers: nothing obliges GenerateResponse.
ServerFairness ==
  \A r \in Turns :
    /\ WF_vars(ValidateWidgetAccess(r))
    /\ WF_vars(CountConversations(r))
    /\ WF_vars(CountMessages(r))
    /\ WF_vars(ResolveConversation(r))
    /\ WF_vars(SaveUserMessage(r))
    /\ WF_vars(SaveBotMessage(r))

SpecLive == Init /\ [][Next]_vars /\ ServerFairness

(* ---------------------------------------------------------------------- *)
(* One POST /message of any content among the other chat requests          *)
(* ---------------------------------------------------------------------- *)
\* the longest message the schema accepts, and one character more
MaxMessage == 1000

MsgLong == [i \in 1..(MaxMessage + 1) |-> "x"]

\* bodies a client can send: well-formed ones, an empty message, an oversized
\* one
AnyBodies == Bodies \cup {<< >>, MsgLong}

\* widget ids a client can send: none, an id of no widget in either format,
\* the id of any widget row
AnyWidgetIds ==
  {NoId, Uuid(7), [fmt |-> "cuid", n |-> 8]} \cup { w.id : w \in AllWidgets }

\* conversation ids a client can send: as before, or an id of no conversation
\* in the format the database generates
AnyConversationIds == RequestConversationIds \cup {[fmt |-> "cuid", n |-> 0]}

\* the request that is followed through the handler
OneTurn == {1}

ReceiveAny(r) ==
  /\ turn[r].pc = "idle"
  /\ \E w \in AnyWidgetIds, c \in AnyConversationIds, m \in AnyBodies,
        u \in RequestUserIds :
       /\ c # NoId => u = ""
       /\ turn' = [turn EXCEPT ![r] =
                     [IdleTurn EXCEPT
                        !.pc = "validateWidgetAccess",
                        !.body = [message |-> m, conversationId |-> c,
                                  widgetId |-> w, userId |-> u]]]
  /\ UNCHANGED << conversations, messages, probe, support, tenants, window >>

\* generateResponse with an adapter that fails in any of the ways
GenerateResponseAny(r) == Generate(r, ProviderErrors, {MaxDuration})

\* variant: the rejected insert is tried again
SaveBotMessageFails_retry(r) ==
  /\ turn[r].pc = "saveBotMessage"
  /\ turn[r].thrown = << >>
  /\ turn' = [turn EXCEPT ![r] = [@ EXCEPT !.thrown = DatabaseError]]
  /\ UNCHANGED << conversations, messages, probe, support, tenants, window >>

\* "Guardar respuesta del bot" when message.create rejects: the handler's
\* catch block answers, nothing is written
SaveBotMessageFails(r) ==
  /\ turn[r].pc = "saveBotMessage"
  /\ turn' = [turn EXCEPT ![r] = onTurnError([turn[r] EXCEPT !.thrown = DatabaseError])]
  /\ conversations' = conversationsAfterError(conversations, r)
  /\ UNCHANGED << messages, probe, support, tenants, window >>

\* "Guardar mensaje del usuario" when message.create rejects: the catch block
\* answers, no message is written
SaveUserMessageFails(r) ==
  /\ turn[r].pc = "saveUserMessage"
  /\ turn' = [turn EXCEPT ![r] = onTurnError([turn[r] EXCEPT !.thrown = DatabaseError])]
  /\ conversations' = conversationsAfterError(conversations, r)
  /\ UNCHANGED << messages, probe, support, tenants, window >>

NextRoutes ==
  \/ \E r \in OneTurn : ReceiveAny(r)
  \/ \E r \in OneTurn : ValidateWidgetAccess(r)
  \/ \E r \in OneTurn : CountConversations(r)
  \/ \E r \in OneTurn : CountMessages(r)
  \/ \E r \in OneTurn : ResolveConversation(r)
  \/ \E r \in OneTurn : SaveUserMessage(r)
  \/ \E r \in OneTurn : GenerateResponseAny(r)
  \/ \E r \in OneTurn : SaveBotMessage(r)
  \/ \E r \in OneTurn : SaveBotMessageFails(r)
  \/ \E r \in OneTurn : SaveUserMessageFails(r)
  \/ CreateConversation
  \/ Close
  \/ \E k \in Transfers : TransferUpdate(k)
  \/ \E k \in Transfers : TransferMessage(k)

SpecRoutes == Init /\ [][NextRoutes]_vars

(* ---------------------------------------------------------------------- *)
(* Signup and the billing webhooks                                         *)
(* ---------------------------------------------------------------------- *)
\* signupSchema: plan is one of the four names
SignupPlans == {"starter", "professional", "business", "enterprise"}

\* plan names given to the two tables: the four, and names outside them
AnyPlans == SignupPlans \cup {"Enterprise", "free", "", "undefined"}

\* DatabaseService.getTenantFeatures
getTenantFeatures(plan) ==
  LET features ==
        [starter |-> << "basic_ai", "widget", "email_support" >>,
         professional |-> << "advanced_ai", "widget", "knowledge_base", "analytics",
                             "email_support" >>,
         business |-> << "multi_model_ai", "widget", "knowledge_base",
                         "advanced_analytics", "api", "priority_support" >>,
         enterprise |-> << "premium_ai", "widget", "knowledge_base", "advanced_analytics",
                           "api", "webhooks", "dedicated_support", "compliance" >>]
  IN  IF plan \in DOMAIN features THEN features[plan] ELSE features.starter

\* DatabaseService.getTenantLimits
getTenantLimits(plan) ==
  LET limits ==
        [starter |-> [conversations |-> 500, messages |-> 2000, chatbots |-> 2],
         professional |-> [conversations |-> 2000, messages |-> 10000, chatbots |-> 5],
         business |-> [conversations |-> 5000, messages |-> 25000, chatbots |-> 10],
         enterprise |-> [conversations |-> 15000, messages |-> 75000, chatbots |-> -1]]
  IN  IF plan \in DOMAIN limits THEN limits[plan] ELSE limits.starter

\* getTenantFeatures of routes/webhooks.ts
webhookTenantFeatures(plan) ==
  LET features ==
        [starter |-> << "basic_ai", "widget", "email_support" >>,
         professional |-> << "advanced_ai", "widget", "knowledge_base", "analytics",
                             "email_support" >>,
         business |-> << "multi_model_ai", "widget", "knowledge_base",
                         "advanced_analytics", "api", "priority_support" >>,
         enterprise |-> << "premium_ai", "widget", "knowledge_base", "advanced_analytics",
                           "api", "webhooks", "dedicated_support", "compliance" >>]
  IN  IF plan \in DOMAIN features THEN features[plan] ELSE features.starter

webhookTenantLimits_drift(plan) ==
  LET limits ==
        [starter |-> [conversations |-> 500, messages |-> 2000, chatbots |-> 2],
         professional |-> [conversations |-> 2000, messages |-> 10000, chatbots |-> 5],
         business |-> [conversations |-> 5000, messages |-> 20000, chatbots |-> 10],
         enterprise |-> [conversations |-> 15000, messages |-> 75000, chatbots |-> -1]]
  IN  IF plan \in DOMAIN limits THEN limits[plan] ELSE limits.starter

\* getTenantLimits of routes/webhooks.ts
webhookTenantLimits(plan) ==
  LET limits ==
        [starter |-> [conversations |-> 500, messages |-> 2000, chatbots |-> 2],
         professional |-> [conversations |-> 2000, messages |-> 10000, chatbots |-> 5],
         business |-> [conversations |-> 5000, messages |-> 25000, chatbots |-> 10],
         enterprise |-> [conversations |-> 15000, messages |-> 75000, chatbots |-> -1]]
  IN  IF plan \in DOMAIN limits THEN limits[plan] ELSE limits.starter

\* the price ids of the environment, one per plan, and ids Stripe can send that
\* are none of them ("" stands for a subscription without a price)
PriceIds == {"price_starter", "price_professional", "price_business", "price_enterprise",
             "price_legacy", ""}

\* handleSubscriptionUpdated: planMapping[priceId] || 'starter'
planMapping(priceId) ==
  CASE priceId = "price_starter" -> "starter"
    [] priceId = "price_professional" -> "professional"
    [] priceId = "price_business" -> "business"
    [] priceId = "price_enterprise" -> "enterprise"
    [] OTHER -> "starter"

SubscriptionStatuses == {"active", "past_due", "canceled"}

\* POST /signup: the account of the next Stripe subscription, made by
\* createTenantWithUser with the features and limits of the chosen plan
Signup ==
  /\ \E k \in Subscriptions :
       /\ ~tenants[k].exists
       /\ \A j \in 1..(k - 1) : tenants[j].exists
       /\ \E plan \in SignupPlans :
            tenants' = [tenants EXCEPT ![k] =
              [exists |-> TRUE, plan |-> plan,
               features |-> getTenantFeatures(plan), limits |-> getTenantLimits(plan),
               isActive |-> TRUE, subscriptionStatus |-> "active",
               deactivating |-> FALSE]]
  /\ UNCHANGED << conversations, messages, turn, probe, support, window >>

\* customer.subscription.updated: one update writes the plan with its features
\* and limits; a canceled subscription is deactivated by a second update.  An
\* update of a subscription no tenant has throws and is swallowed.
SubscriptionUpdated ==
  /\ \E k \in Subscriptions, priceId \in PriceIds, status \in SubscriptionStatuses :
       LET newPlan == planMapping(priceId)
       IN  IF tenants[k].exists
             THEN tenants' = [tenants EXCEPT ![k] =
                    [@ EXCEPT !.plan = newPlan,
                              !.subscriptionStatus = status,
                              !.features = webhookTenantFeatures(newPlan),
                              !.limits = webhookTenantLimits(newPlan),
                              !.deactivating = @ \/ status = "canceled"]]
             ELSE UNCHANGED tenants
  /\ UNCHANGED << conversations, messages, turn, probe, support, window >>

\* the second update of handleSubscriptionUpdated
Deactivate ==
  /\ \E k \in Subscriptions :
       /\ tenants[k].deactivating
       /\ tenants' = [tenants EXCEPT ![k] =
            [@ EXCEPT !.isActive = FALSE, !.deactivating = FALSE]]
  /\ UNCHANGED << conversations, messages, turn, probe, support, window >>

\* customer.subscription.deleted: back to starter, in one update
SubscriptionDeleted ==
  /\ \E k \in Subscriptions :
       IF tenants[k].exists
         THEN tenants' = [tenants EXCEPT ![k] =
                [@ EXCEPT !.subscriptionStatus = "canceled",
                          !.plan = "starter",
                          !.isActive = FALSE,
                          !.features = webhookTenantFeatures("starter"),
                          !.limits = webhookTenantLimits("starter")]]
         ELSE UNCHANGED tenants
  /\ UNCHANGED << conversations, messages, turn, probe, support, window >>

\* invoice.payment_succeeded: the account is active again
PaymentSucceeded ==
  /\ \E k \in Subscriptions :
       IF tenants[k].exists
         THEN tenants' = [tenants EXCEPT ![k] =
                [@ EXCEPT !.isActive = TRUE]]
         ELSE UNCHANGED tenants
  /\ UNCHANGED << conversations, messages, turn, probe, support, window >>

NextBilling ==
  \/ Signup
  \/ SubscriptionUpdated
  \/ Deactivate
  \/ SubscriptionDeleted
  \/ PaymentSucceeded

SpecBilling == Init /\ [][NextBilling]_vars

(* ---------------------------------------------------------------------- *)
(* checkTenantLimits as a function: any limits JSON, any two counts        *)
(* ---------------------------------------------------------------------- *)
LimitValues == (-2)..MaxLimit
UsedValues == 0..MaxUsed

InitLimits ==
  /\ conversations = << SeedConversation >>
  /\ messages = << >>
  /\ turn = [r \in Turns |-> IdleTurn]
  /\ support = NoSupport
  /\ tenants = NoTenants
  /\ window = NoWindow
  /\ \E lc \in LimitValues, lm \in LimitValues, uc \in UsedValues, um \in UsedValues :
       probe = [NoProbe EXCEPT !.limits = [conversations |-> lc, messages |-> lm],
                               !.conversationCount = uc,
                               !.messageCount = um]

CallCheckTenantLimits ==
  /\ ~probe.called
  /\ probe' = [probe EXCEPT
                 !.called = TRUE,
                 !.result = checkTenantLimits(probe.limits, probe.conversationCount,
                                              probe.messageCount)]
  /\ UNCHANGED << conversations, messages, turn, support, tenants, window >>

NextLimits == CallCheckTenantLimits

SpecLimits == InitLimits /\ [][NextLimits]_vars

(* ---------------------------------------------------------------------- *)
(* The two counts of checkTenantLimits over tables that span the turn of   *)
(* a month                                                                 *)
(* ---------------------------------------------------------------------- *)
MaxRows == 2

\* creation times around the start of the second month
UsageTimes == (MonthLength - 2)..(MonthLength + 1)

\* zones of the server: behind UTC, UTC, ahead of UTC
Zones == {-1, 0, 1}

UsageTenants == {"T1", "T2"}

NoUsageProbe == [tenantId |-> "", date |-> 0, zone |-> 0, called |-> FALSE, result |-> NoLimits]

usageConversation(i, t, at) ==
  [id |-> Uuid(10 + i), tenantId |-> t, widgetId |-> Uuid(1), chatbotId |-> "B1",
   userId |-> "visitor", status |-> "ACTIVE", createdAt |-> at, updatedAt |-> at, by |-> -1]

usageMessage(i, c, at) ==
  [id |-> [fmt |-> "cuid", n |-> i], conversationId |-> Uuid(10 + c),
   content |-> << "m" >>, sender |-> "USER", createdAt |-> at, by |-> -1]

\* tables in creation order, each message younger than its conversation, read
\* at a date after all of them
InitUsage ==
  /\ \E n \in 1..MaxRows :
       \E owner \in [1..n -> UsageTenants], at \in [1..n -> UsageTimes] :
         /\ \A i \in 1..(n - 1) : at[i] <= at[i + 1]
         /\ conversations = [i \in 1..n |-> usageConversation(i, owner[i], at[i])]
  /\ \E n \in 0..MaxRows :
       \E of \in [1..n -> 1..Len(conversations)], at \in [1..n -> UsageTimes] :
         /\ \A i \in 1..(n - 1) : at[i] <= at[i + 1]
         /\ \A i \in 1..n : conversations[of[i]].createdAt <= at[i]
         /\ messages = [i \in 1..n |-> usageMessage(i, of[i], at[i])]
  /\ turn = [r \in Turns |-> IdleTurn]
  /\ support = NoSupport
  /\ tenants = NoTenants
  /\ window = NoWindow
  /\ \E t \in UsageTenants, date \in UsageTimes, zone \in Zones :
       /\ \A i \in 1..Len(conversations) : conversations[i].createdAt <= date
       /\ \A i \in 1..Len(messages) : messages[i].createdAt <= date
       /\ probe = [NoUsageProbe EXCEPT !.tenantId = t, !.date = date, !.zone = zone]

\* checkTenantLimits(tenantId) on a server of the zone at the date
CallCountUsage ==
  /\ ~probe.called
  /\ LET since == currentMonth(probe.date, probe.zone)
     IN  probe' = [probe EXCEPT
                     !.called = TRUE,
                     !.result = checkTenantLimits(Tenant[probe.tenantId].limits,
                                                  conversationsSince(probe.tenantId, since),
                                                  messagesSince(probe.tenantId, since))]
  /\ UNCHANGED << conversations, messages, turn, support, tenants, window >>

NextUsage == CallCountUsage

SpecUsage == InitUsage /\ [][NextUsage]_vars

(* ---------------------------------------------------------------------- *)
(* detectComplexity and selectModelForTenant as functions                  *)
(* ---------------------------------------------------------------------- *)
\* String.prototype.toUpperCase on the letters a-z, for writing messages
toUpperCase(s) ==
  [i \in 1..Len(s) |->
     IF \E j \in 1..Len(LowerCase) : LowerCase[j] = s[i]
       THEN UpperCase[CHOOSE j \in 1..Len(LowerCase) : LowerCase[j] = s[i]]
       ELSE s[i]]

\* words a visitor may type: the English ones and the Spanish stems
EnglishWords ==
  { << "a", "n", "a", "l", "y", "z", "e" >>,
    << "c", "o", "m", "p", "a", "r", "e" >>,
    << "e", "v", "a", "l", "u", "a", "t", "e" >>,
    << "e", "x", "p", "l", "a", "i", "n", " ", "i", "n", " ", "d", "e", "t", "a", "i", "l" >>,
    << "c", "o", "m", "p", "l", "e", "x" >> }

ProbeWords == EnglishWords \cup Keywords

CaseStyles == {"lower", "upper", "capital"}

cased(word, style) ==
  IF style = "upper" THEN toUpperCase(word)
  ELSE IF style = "capital" THEN toUpperCase(SubSeq(word, 1, 1)) \o SubSeq(word, 2, Len(word))
  ELSE word

\* a message of len characters, q of them question marks, with no letters
\* of a word
plainMessage(len, q) == [i \in 1..len |-> IF i <= len - q THEN "x" ELSE "?"]

\* a short message around a word
wordMessage(word, style, pad, q) ==
  [i \in 1..pad |-> "x"] \o cased(word, style) \o [i \in 1..q |-> "?"]

ProbeMessages ==
  { plainMessage(len, q) : len \in 0..MaxLength, q \in 0..MaxQuestions }
    \cup { wordMessage(w, c, pad, q) :
              w \in ProbeWords, c \in CaseStyles, pad \in 0..MaxPad, q \in 0..MaxQuestions }

\* plans of tenant rows: the four of getTenantLimits and strings outside them
ProbePlans == {"starter", "professional", "business", "enterprise", "Enterprise", "free", ""}

Complexities == {"simple", "medium", "complex"}

NoAIProbe ==
  [fn |-> "", message |-> << >>, plan |-> "", complexity |-> "", called |-> FALSE,
   result |-> ""]

InitAI ==
  /\ conversations = << SeedConversation >>
  /\ messages = << >>
  /\ turn = [r \in Turns |-> IdleTurn]
  /\ support = NoSupport
  /\ tenants = NoTenants
  /\ window = NoWindow
  /\ \/ \E m \in ProbeMessages :
          probe = [NoAIProbe EXCEPT !.fn = "detectComplexity", !.message = m]
     \/ \E p \in ProbePlans, c \in Complexities :
          probe = [NoAIProbe EXCEPT !.fn = "selectModelForTenant", !.plan = p,
                                    !.complexity = c]

CallDetectComplexity ==
  /\ probe.fn = "detectComplexity"
  /\ ~probe.called
  /\ probe' = [probe EXCEPT !.called = TRUE, !.result = detectComplexity(probe.message)]
  /\ UNCHANGED << conversations, messages, turn, support, tenants, window >>

CallSelectModelForTenant ==
  /\ probe.fn = "selectModelForTenant"
  /\ ~probe.called
  /\ probe' = [probe EXCEPT !.called = TRUE,
                            !.result = selectModelForTenant(probe.plan, probe.complexity)]
  /\ UNCHANGED << conversations, messages, turn, support, tenants, window >>

NextAI == CallDetectComplexity \/ CallSelectModelForTenant

SpecAI == InitAI /\ [][NextAI]_vars

(* ---------------------------------------------------------------------- *)
(* The model of a turn for two widgets that differ in the model configured *)
(* for their chatbot                                                       *)
(* ---------------------------------------------------------------------- *)
\* values of the column model of a chatbot
ChatbotModels == SupportedModels \cup {"gpt-3.5-turbo"}

ChoiceTenants == {"T1", "T2"}

\* one message of each complexity
ChoiceMessages == {MsgHola, MsgQue, << "c", "o", "m", "p", "l", "e", "j", "o" >>}

choiceWidget(t, model) ==
  [id |-> Uuid(1), tenantId |-> t, isActive |-> TRUE,
   chatbot |-> [id |-> "B1", isActive |-> TRUE, systemPrompt |-> "P1", model |-> model]]

NoChoiceProbe ==
  [message |-> << >>, first |-> choiceWidget("T1", "gpt-4"),
   second |-> choiceWidget("T1", "gpt-4"), called |-> 0, models |-> << >>]

InitChoice ==
  /\ conversations = << SeedConversation >>
  /\ messages = << >>
  /\ turn = [r \in Turns |-> IdleTurn]
  /\ support = NoSupport
  /\ tenants = NoTenants
  /\ window = NoWindow
  /\ \E t \in ChoiceTenants, m \in ChoiceMessages, a \in ChatbotModels, b \in ChatbotModels :
       probe = [NoChoiceProbe EXCEPT !.message = m,
                                     !.first = choiceWidget(t, a),
                                     !.second = choiceWidget(t, b)]

\* the handler chooses the model for the message sent through the first, then
\* through the second widget
ChooseModel ==
  /\ probe.called < 2
  /\ probe' = [probe EXCEPT
                 !.called = @ + 1,
                 !.models = Append(@, turnModel(IF probe.called = 0 THEN probe.first
                                                ELSE probe.second,
                                                probe.message))]
  /\ UNCHANGED << conversations, messages, turn, support, tenants, window >>

NextChoice == ChooseModel

SpecChoice == InitChoice /\ [][NextChoice]_vars

(* ---------------------------------------------------------------------- *)
(* AIService.generateResponse called by itself, with any model identifier  *)
(* and adapters that take time                                             *)
(* ---------------------------------------------------------------------- *)
\* the model argument is a string at run time: the four models and two others
ModelIds == SupportedModels \cup {"gpt-3.5-turbo", "claude-3-opus"}

\* how long an adapter call takes, in units of the clock
Durations == 1..MaxDuration

\* a caller about to call generateResponse(message, context, model)
calling(message, model) ==
  [IdleTurn EXCEPT !.pc = "generateResponse", !.body.message = message,
                   !.model = model, !.aiModel = model]

InitGenerate ==
  /\ conversations = << SeedConversation >>
  /\ messages = << >>
  /\ probe = NoProbe
  /\ support = NoSupport
  /\ tenants = NoTenants
  /\ window = NoWindow
  /\ \E models \in [Turns -> ModelIds] :
       turn = [r \in Turns |-> calling(MsgHola, models[r])]

\* generateResponse with adapters that fail in any way and take any time
GenerateResponseTimed(r) == Generate(r, ProviderErrors, Durations)

NextGenerate == \E r \in Turns : GenerateResponseTimed(r)

SpecGenerate == InitGenerate /\ [][NextGenerate]_vars

(* ---------------------------------------------------------------------- *)
(* Turns on a conversation that already holds messages                     *)
(* ---------------------------------------------------------------------- *)
\* what earlier requests left in the conversation: turns that succeeded (USER
\* and BOT alternate) or turns that failed (USER only)
HistoryPatterns == {"turns", "failed"}

earlierSender(pattern, i) ==
  IF pattern = "failed" THEN "USER"
  ELSE IF i % 2 = 1 THEN "USER" ELSE "BOT"

\* k rows of the seed conversation; row i has a content of i characters
earlierMessages(k, pattern) ==
  [i \in 1..k |->
     [id |-> [fmt |-> "cuid", n |-> i], conversationId |-> SeedConversation.id,
      content |-> [j \in 1..i |-> "m"], sender |-> earlierSender(pattern, i),
      createdAt |-> i, by |-> -1]]

InitHistory ==
  /\ conversations = << SeedConversation >>
  /\ \E k \in 0..MaxHistory, pattern \in HistoryPatterns :
       messages = earlierMessages(k, pattern)
  /\ turn = [r \in Turns |-> IdleTurn]
  /\ support = NoSupport
  /\ tenants = NoTenants
  /\ window = NoWindow
  /\ probe = NoProbe

NextHistory ==
  \/ \E r \in Turns : Receive(r)
  \/ \E r \in Turns : ValidateWidgetAccess(r)
  \/ \E r \in Turns : CountConversations(r)
  \/ \E r \in Turns : CountMessages(r)
  \/ \E r \in Turns : ResolveConversation(r)
  \/ \E r \in Turns : SaveUserMessage(r)
  \/ \E r \in Turns : GenerateResponse(r)
  \/ \E r \in Turns : SaveBotMessage(r)

SpecHistory == InitHistory /\ [][NextHistory]_vars

\* the turns alone, from the tables of Init and with the history of the
\* pre-check window kept: every conversation but the first is created by a turn
InitTurns ==
  /\ conversations = << SeedConversation >>
  /\ messages = << >>
  /\ turn = [r \in Turns |-> IdleTurn]
  /\ support = NoSupport
  /\ tenants = NoTenants
  /\ probe = NoProbe
  /\ window = [NoWindow EXCEPT !.on = TRUE]

SpecTurns == InitTurns /\ [][NextHistory]_vars

(* ---------------------------------------------------------------------- *)
(* Properties                                                              *)
(* ---------------------------------------------------------------------- *)
\* rows of the messages table written by request r with the given sender
written(r, sender) ==
  { i \in 1..Len(messages) : messages[i].by = r /\ messages[i].sender = sender }

\* the USER row of request r is in the table, in the conversation r resolved
userPersisted(r) ==
  \E i \in 1..Len(messages) :
    /\ messages[i].id = turn[r].userMessage
    /\ messages[i].by = r
    /\ messages[i].sender = "USER"
    /\ messages[i].content = turn[r].body.message
    /\ messages[i].conversationId = turn[r].conversation

\* request r is past generateResponse
answered(r) == turn[r].pc \in {"saveBotMessage", "done"} /\ turn[r].calls # << >>

\* C1: a failed adapter call of a selected model other than 'gpt-4' is followed
\* by exactly one call of 'gpt-4' with the same message and context and by
\* nothing else; a failed call of 'gpt-4' and a successful call are followed by
\* no call; no turn makes more than two adapter calls.
C1_SingleFallback ==
  \A r \in Turns :
    LET c == turn[r].calls
    IN  /\ Len(c) <= 2
        /\ Len(c) = 2 =>
             /\ ~c[1].ok
             /\ c[1].model # "gpt-4"
             /\ c[2].model = "gpt-4"
             /\ c[2].message = c[1].message
             /\ c[2].context = c[1].context
        /\ answered(r) =>
             Len(c) = (IF ~c[1].ok /\ c[1].model # "gpt-4" THEN 2 ELSE 1)

\* a turn whose selected model failed has ended after its fallback call
C1_Witness ==
  \E r \in Turns :
    /\ turn[r].pc = "done"
    /\ Len(turn[r].calls) = 2
    /\ turn[r].calls[1].model = "gemini-pro"

\* C2: when the selected model's call and the fallback call both fail, the
\* turn has ended with the failure response and has written exactly one USER
\* message and no BOT message, the USER message being in its conversation.
C2_BothFail ==
  \A r \in Turns :
    LET c == turn[r].calls
    IN  (Len(c) = 2 /\ ~c[1].ok /\ ~c[2].ok) =>
          /\ turn[r].pc = "done"
          /\ turn[r].res.status = 500
          /\ Cardinality(written(r, "USER")) = 1
          /\ written(r, "BOT") = {}
          /\ userPersisted(r)

\* both calls of a turn have failed
C2_Witness ==
  \E r \in Turns :
    /\ Len(turn[r].calls) = 2
    /\ ~turn[r].calls[1].ok
    /\ ~turn[r].calls[2].ok
    /\ turn[r].res.status = 500

\* C3: a step that makes an adapter call is taken only when the turn's USER
\* message is already in the table, and the message is in the table in every
\* later state, in particular when the turn has ended, however it ended.
C3_UserFirst ==
  /\ [][\A r \in Turns :
          Len(turn'[r].calls) > Len(turn[r].calls) => userPersisted(r)]_vars
  /\ [](\A r \in Turns :
          (turn[r].conversation # NoId
             /\ (turn[r].calls # << >> \/ turn[r].pc = "done")) => userPersisted(r))

\* a turn has ended in failure after its adapter calls, its USER message kept
C3_Witness ==
  \E r \in Turns :
    /\ turn[r].pc = "done"
    /\ turn[r].res.status = 500
    /\ turn[r].calls # << >>
    /\ userPersisted(r)

\* the pre-check of request r has read both counts
preChecked(r) == turn[r].conversationCount # -1 /\ turn[r].messageCount # -1

\* C4: a request whose pre-check read a conversation count at or above the
\* tenant's positive conversations limit has ended with status 429 carrying
\* that count and that limit, has made no adapter call and has created no
\* conversation and no message.
C4_LimitGate ==
  \A r \in Turns :
    LET limit == Tenant[turn[r].tenantId].limits.conversations
    IN  (preChecked(r) /\ limit > 0 /\ turn[r].conversationCount >= limit) =>
          /\ turn[r].pc = "done"
          /\ turn[r].res.status = 429
          /\ turn[r].res.used = turn[r].conversationCount
          /\ turn[r].res.limit = limit
          /\ turn[r].calls = << >>
          /\ ~turn[r].created
          /\ \A i \in 1..Len(conversations) : conversations[i].by # r
          /\ \A i \in 1..Len(messages) : messages[i].by # r

\* a request was rejected at a count equal to the limit
C4_Witness ==
  \E r \in Turns :
    /\ preChecked(r)
    /\ turn[r].conversationCount = Tenant[turn[r].tenantId].limits.conversations
    /\ turn[r].res.status = 429

\* request r is well formed and names no conversation or one of its tenant
wellFormed(r) ==
  LET id == turn[r].body.conversationId
  IN  /\ chatMessageSchema(turn[r].body)
      /\ id # NoId =>
            (conversationExists(id) /\ findConversation(id).tenantId = turn[r].tenantId)

\* C5: a well-formed request whose pre-check read a message count at or above
\* the tenant's positive messages limit writes no message and, once it has
\* ended, was rejected with status 429.
C5_MessagesGate ==
  \A r \in Turns :
    LET limit == Tenant[turn[r].tenantId].limits.messages
    IN  (preChecked(r) /\ limit > 0 /\ turn[r].messageCount >= limit /\ wellFormed(r)) =>
          /\ turn[r].pc = "done" => turn[r].res.status = 429
          /\ \A i \in 1..Len(messages) : messages[i].by # r

inFlight(r) == turn[r].pc \notin {"idle", "done"}

\* C6: a step that adds a conversation of a tenant with a positive limit is
\* taken at a count below the limit, when no other request is in flight: the
\* step of POST /conversation with no turn in flight, and the step of a turn
\* with no other turn in flight and the count as the turn's pre-check read it.
C6_NoCreationAtLimit ==
  [][\A t \in TenantIds :
       LET limit == Tenant[t].limits.conversations
           new == conversations'[Len(conversations')]
       IN  ( /\ Len(conversations') = Len(conversations) + 1
             /\ new.tenantId = t
             /\ limit > 0
             /\ \/ new.by = 0 /\ \A q \in Turns : ~inFlight(q)
                \/ /\ new.by \in Turns
                   /\ \A q \in Turns \ {new.by} : ~inFlight(q)
                   /\ turn[new.by].conversationCount = countConversations(t) )
           => countConversations(t) < limit]_vars

\* C7: for conversations and for messages, checkTenantLimits reports the count
\* it was given as used, and exceeded exactly when the limit is at least 1 and
\* the count is not below it; with a limit of 0 or less nothing is exceeded.
C7_Exceeded ==
  probe.called =>
    \A k \in {"conversations", "messages"} :
      LET limit == probe.limits[k]
          used == IF k = "conversations" THEN probe.conversationCount
                                         ELSE probe.messageCount
      IN  /\ probe.result[k].used = used
          /\ probe.result[k].exceeded <=> (limit >= 1 /\ ~(used < limit))
          /\ limit <= 0 => ~probe.result[k].exceeded

\* an unlimited entry with a positive count, and an entry just at its limit
C7_Witness ==
  /\ probe.called
  /\ probe.limits.conversations = -1
  /\ probe.conversationCount > 0
  /\ ~probe.result.conversations.exceeded
  /\ probe.limits.messages > 0
  /\ probe.messageCount = probe.limits.messages
  /\ probe.result.messages.exceeded

\* C8: a turn creates its conversation on the strength of the count its own
\* pre-check read: every turn that created a conversation for a tenant with a
\* positive limit had read a count below the limit, whatever the count is now.
C8_AdmittedOnOwnRead ==
  \A r \in Turns :
    LET limit == Tenant[turn[r].tenantId].limits.conversations
    IN  (turn[r].created /\ limit > 0) =>
          (preChecked(r) /\ turn[r].conversationCount < limit)

\* two turns of a tenant read a count one below the limit, both created a
\* conversation, and the tenant's count is above its limit
C8_Overrun ==
  \E r \in Turns, q \in Turns :
    LET t == turn[r].tenantId
        limit == Tenant[t].limits.conversations
    IN  /\ r # q
        /\ t \in TenantIds
        /\ turn[q].tenantId = t
        /\ limit > 0
        /\ turn[r].conversationCount = limit - 1
        /\ turn[q].conversationCount = limit - 1
        /\ turn[r].created
        /\ turn[q].created
        /\ countConversations(t) > limit

allEnded == \A r \in Turns : turn[r].pc = "done"

rowsOf(c, sender) ==
  { i \in 1..Len(messages) : messages[i].conversationId = c /\ messages[i].sender = sender }

\* C9: once all turns have ended, every conversation holds one USER message
\* for each turn that resolved it and one BOT message for each turn on it that
\* succeeded, and no others, and no two messages have the same id.
C9_NoLossNoDuplicate ==
  allEnded =>
    /\ \A c \in KnownConversationIds :
         /\ Cardinality(rowsOf(c, "USER"))
              = Cardinality({ r \in Turns : turn[r].conversation = c })
         /\ Cardinality(rowsOf(c, "BOT"))
              = Cardinality({ r \in Turns : turn[r].conversation = c
                                             /\ turn[r].res.status = 200 })
         /\ \A r \in Turns :
              turn[r].conversation = c =>
                /\ Cardinality(written(r, "USER") \cap rowsOf(c, "USER")) = 1
                /\ Cardinality(written(r, "BOT") \cap rowsOf(c, "BOT"))
                     = (IF turn[r].res.status = 200 THEN 1 ELSE 0)
    /\ \A i \in 1..Len(messages), j \in 1..Len(messages) :
         i # j => messages[i].id # messages[j].id

\* two turns looked up the same conversation before either wrote to it, and
\* both have succeeded
C9_Witness ==
  /\ allEnded
  /\ \E r \in Turns, q \in Turns :
       /\ r # q
       /\ turn[r].conversation # NoId
       /\ turn[r].conversation = turn[q].conversation
       /\ turn[r].resolvedAt = turn[q].resolvedAt
       /\ turn[r].res.status = 200
       /\ turn[q].res.status = 200

\* C10: the history a turn sends to the adapter is the one of the table as it
\* was when the turn looked its conversation up (the most recent ten of the
\* conversation's rows of that time, oldest first): a message written after
\* the lookup by a racing request is not in it.
C10_HistoryOfLookup ==
  \A r \in Turns :
    turn[r].userMessage # NoId =>
      LET old == SelectSeq(SubSeq(messages, 1, turn[r].resolvedAt),
                           LAMBDA m : m.conversationId = turn[r].conversation)
          n == Len(old)
          k == IF n < 10 THEN n ELSE 10
          h == turn[r].context.conversationHistory
      IN  /\ Len(h) = k
          /\ \A i \in 1..k :
               /\ h[i].content = old[n - k + i].content
               /\ h[i].role = (IF old[n - k + i].sender = "USER" THEN "user"
                                                                 ELSE "assistant")

\* a BOT reply was written after the USER message of a racing request, which
\* was written after the replying turn's lookup and is not in its history
C10_StaleReply ==
  \E r \in Turns, q \in Turns :
    /\ r # q
    /\ turn[r].conversation = turn[q].conversation
    /\ turn[r].botMessage # NoId
    /\ turn[q].userMessage # NoId
    /\ turn[q].userMessage.n > turn[r].resolvedAt
    /\ turn[q].userMessage.n < turn[r].botMessage.n
    /\ \A i \in 1..Len(turn[r].snapshot) : turn[r].snapshot[i].id # turn[q].userMessage
    /\ Len(turn[r].context.conversationHistory) = Len(turn[r].snapshot)

\* the conversation request r names is missing or belongs to another tenant
\* than the widget the request names
foreignConversation(r) ==
  LET id == turn[r].body.conversationId
      w == turn[r].body.widgetId
  IN  /\ id # NoId
      /\ w \in WidgetIds
      /\ ~conversationExists(id)
            \/ findConversation(id).tenantId # findWidget(w).tenantId

reachedLookup(r) ==
  /\ preChecked(r)
  /\ ~turn[r].limits[LimitType].exceeded
  /\ chatMessageSchema(turn[r].body)

historyOf(c, n) ==
  LET old == SelectSeq(SubSeq(messages, 1, n), LAMBDA m : m.conversationId = c)
      k == IF Len(old) < 10 THEN Len(old) ELSE 10
  IN  [i \in 1..k |->
         [role |-> IF old[Len(old) - k + i].sender = "USER" THEN "user" ELSE "assistant",
          content |-> old[Len(old) - k + i].content]]

\* position of the USER row of request r in the table
userRow(r) == CHOOSE i \in 1..Len(messages) : messages[i].id = turn[r].userMessage

\* C12 as stated: the history of every adapter call of a turn is made of the
\* last ten of the messages its conversation held just before the turn's own
\* USER message was inserted.
C12_BeforeOwnInsert ==
  \A r \in Turns :
    \A j \in 1..Len(turn[r].calls) :
      turn[r].calls[j].context.conversationHistory
        = historyOf(turn[r].conversation, userRow(r) - 1)

\* C12: the history of every adapter call of a turn is made of the messages
\* the conversation held when the turn looked it up: the min(k,10) most recent
\* of these k, oldest first, USER as 'user' and any other sender as
\* 'assistant'.  The turn's own USER message was inserted after the lookup and
\* is not among them.
C12_HistoryWindow ==
  \A r \in Turns :
    \A j \in 1..Len(turn[r].calls) :
      /\ turn[r].calls[j].context.conversationHistory
           = historyOf(turn[r].conversation, turn[r].resolvedAt)
      /\ userRow(r) > turn[r].resolvedAt

\* an adapter was called for a conversation of twelve messages with the ten
\* most recent of them, of both roles
C12_Witness ==
  \E r \in Turns :
    LET h == turn[r].calls[1].context.conversationHistory
    IN  /\ turn[r].calls # << >>
        /\ Cardinality({ i \in 1..turn[r].resolvedAt :
                           messages[i].conversationId = turn[r].conversation }) = 12
        /\ Len(h) = 10
        /\ Len(h[1].content) = 3
        /\ h[1].role = "user"
        /\ h[10].role = "assistant"

\* C13: a turn that ended with success has written exactly two messages, both
\* to its conversation: one USER message and, later in creation order, one BOT
\* message.  No step of a turn changes the status of a conversation, and a
\* conversation a turn creates is ACTIVE.
C13_TwoMessages ==
  /\ [](\A r \in Turns :
          (turn[r].pc = "done" /\ turn[r].res.status = 200) =>
            /\ Cardinality(written(r, "USER")) = 1
            /\ Cardinality(written(r, "BOT")) = 1
            /\ Cardinality({ i \in 1..Len(messages) : messages[i].by = r }) = 2
            /\ \A i \in written(r, "USER"), j \in written(r, "BOT") :
                 /\ i < j
                 /\ messages[i].conversationId = turn[r].conversation
                 /\ messages[j].conversationId = turn[r].conversation
                 /\ messages[j].id = turn[r].res.messageId
            /\ turn[r].res.conversationId = turn[r].conversation)
  /\ [][turn' # turn =>
          /\ \A i \in 1..Len(conversations) :
               /\ i <= Len(conversations')
               /\ conversations'[i].id = conversations[i].id
               /\ conversations'[i].status = conversations[i].status
          /\ \A i \in (Len(conversations) + 1)..Len(conversations') :
               conversations'[i].status = "ACTIVE"]_vars

\* a turn that created its conversation has succeeded, and the conversation
\* is ACTIVE
C13_Witness ==
  \E r \in Turns :
    /\ turn[r].res.status = 200
    /\ turn[r].created
    /\ findConversation(turn[r].conversation).status = "ACTIVE"
    /\ Cardinality({ i \in 1..Len(messages) : messages[i].by = r }) = 2

\* C14: every turn has written at most one BOT message, and a BOT message of a
\* turn is preceded in the table by the USER message of the same turn, in the
\* same conversation.
C14_BotAfterUser ==
  \A r \in Turns :
    /\ Cardinality(written(r, "BOT")) <= 1
    /\ \A j \in written(r, "BOT") :
         \E i \in written(r, "USER") :
           /\ i < j
           /\ messages[i].conversationId = messages[j].conversationId
           /\ messages[i].id = turn[r].userMessage

\* a turn has written its BOT message while another turn on the conversation
\* wrote between its two messages
C14_Witness ==
  \E r \in Turns :
    \E i \in written(r, "USER"), j \in written(r, "BOT") :
      \E m \in (i + 1)..(j - 1) :
        /\ messages[m].by # r
        /\ messages[m].conversationId = messages[j].conversationId

\* conversations created by request r
createdBy(r) == { i \in 1..Len(conversations) : conversations[i].by = r }

\* C15: a turn that names no conversation and has got past its conversation
\* step has created exactly one conversation, with the tenant, widget and
\* chatbot of its widget and with the supplied userId or, when none was
\* supplied, an anonymous one, and the conversation was ACTIVE when created;
\* before that step, and whenever the turn names a conversation, it has
\* created none.
C15_OneConversation ==
  /\ [](\A r \in Turns :
          LET body == turn[r].body
              past == turn[r].conversation # NoId
          IN  /\ Cardinality(createdBy(r)) = (IF body.conversationId = NoId /\ past
                                                 THEN 1 ELSE 0)
              /\ turn[r].created <=> createdBy(r) # {}
              /\ (turn[r].pc \in {"saveUserMessage", "generateResponse", "saveBotMessage"}
                    \/ turn[r].calls # << >>) => past
              /\ \A i \in createdBy(r) :
                   LET widget == findWidget(body.widgetId)
                   IN  /\ conversations[i].id = turn[r].conversation
                       /\ conversations[i].tenantId = widget.tenantId
                       /\ conversations[i].widgetId = body.widgetId
                       /\ conversations[i].chatbotId = widget.chatbot.id
                       /\ conversations[i].userId
                            = (IF body.userId # "" THEN body.userId ELSE "anonymous"))
  /\ [][\A r \in Turns :
          (turn'[r].created /\ ~turn[r].created) =>
            /\ Len(conversations') = Len(conversations) + 1
            /\ conversations'[Len(conversations')].by = r
            /\ conversations'[Len(conversations')].status = "ACTIVE"]_vars

\* a turn created a conversation for the user it named, and a turn that named
\* an existing conversation has written to it and has created none
C15_Witness ==
  \E r \in Turns, q \in Turns :
    /\ turn[r].created
    /\ turn[r].body.userId = "u1"
    /\ findConversation(turn[r].conversation).userId = "u1"
    /\ turn[q].body.conversationId # NoId
    /\ turn[q].conversation = turn[q].body.conversationId
    /\ turn[q].userMessage # NoId
    /\ createdBy(q) = {}

\* a message that holds none of the classifier's keywords in any letter case
noKeyword(m) == \A k \in Keywords : ~includes(toLowerCase(m), k)

questionMarks(m) == Cardinality({ i \in 1..Len(m) : m[i] = "?" })

\* C16: for a message with no keyword detectComplexity answers complex when
\* the message is longer than 200 or has more than two '?', otherwise medium
\* when it is longer than 50 or has a '?', otherwise simple; so the empty
\* message and 50 characters without '?' are simple, and 200 characters with
\* exactly two '?' are medium.
C16_Thresholds ==
  (probe.fn = "detectComplexity" /\ probe.called) =>
    LET m == probe.message
        n == Len(m)
        q == questionMarks(m)
    IN  /\ probe.result \in Complexities
        /\ noKeyword(m) =>
             /\ probe.result = "complex" <=> (n > 200 \/ q > 2)
             /\ probe.result = "medium" <=> (~(n > 200 \/ q > 2) /\ (n > 50 \/ q >= 1))
             /\ probe.result = "simple" <=> (n <= 50 /\ q = 0)
        /\ m = << >> => probe.result = "simple"
        /\ (n = 50 /\ q = 0 /\ noKeyword(m)) => probe.result = "simple"
        /\ (n = 200 /\ q = 2 /\ noKeyword(m)) => probe.result = "medium"

\* 200 characters with exactly two '?' were classified medium
C16_Witness ==
  /\ probe.fn = "detectComplexity"
  /\ probe.called
  /\ Len(probe.message) = 200
  /\ questionMarks(probe.message) = 2
  /\ probe.result = "medium"

\* C17 as stated: a message that holds, in any letter case, one of the words
\* analyze, compare, evaluate, explain in detail, complex is classified
\* complex.
C17_EnglishWords ==
  (probe.fn = "detectComplexity" /\ probe.called
     /\ \E w \in EnglishWords : includes(toLowerCase(probe.message), w))
    => probe.result = "complex"

\* C17: a message that holds, in any letter case, one of the stems analiz,
\* compar, evalua, explicar, detallar, complejo is classified complex,
\* whatever its length and its number of '?'; of the five English words this
\* covers compare and evaluate.
C17_Stems ==
  (probe.fn = "detectComplexity" /\ probe.called) =>
    /\ (\E k \in Keywords : includes(toLowerCase(probe.message), k))
         => probe.result = "complex"
    /\ (\E w \in { << "c", "o", "m", "p", "a", "r", "e" >>,
                     << "e", "v", "a", "l", "u", "a", "t", "e" >> } :
           includes(toLowerCase(probe.message), w))
         => probe.result = "complex"

\* a short message without '?' that holds a stem in capitals was classified
\* complex
C17_Witness ==
  /\ probe.fn = "detectComplexity"
  /\ probe.called
  /\ probe.message = << "x", "D", "E", "T", "A", "L", "L", "A", "R" >>
  /\ probe.result = "complex"

\* the policy table: plan -> model for simple, medium, complex
PolicyTable ==
  [enterprise |-> << "gpt-4-turbo", "gpt-4-turbo", "claude-3.5-sonnet" >>,
   business |-> << "gemini-pro", "gpt-4", "gpt-4" >>,
   professional |-> << "gemini-pro", "gemini-pro", "gpt-4" >>,
   starter |-> << "gemini-pro", "gemini-pro", "gemini-pro" >>]

\* C18: selectModelForTenant answers the entry of the policy table for the
\* plan and the complexity, and the starter row for a plan that is none of
\* the four.
C18_PolicyTable ==
  (probe.fn = "selectModelForTenant" /\ probe.called) =>
    LET row == IF probe.plan \in DOMAIN PolicyTable THEN PolicyTable[probe.plan]
                                                    ELSE PolicyTable["starter"]
        col == IF probe.complexity = "simple" THEN 1
               ELSE IF probe.complexity = "medium" THEN 2 ELSE 3
    IN  probe.result = row[col]

\* a plan outside the four was given the starter row for a complex message
C18_Witness ==
  /\ probe.fn = "selectModelForTenant"
  /\ probe.called
  /\ probe.plan = "free"
  /\ probe.complexity = "complex"
  /\ probe.result = "gemini-pro"

\* C19: the model in the response of a successful turn is the model of the
\* adapter call that answered, and the stored BOT message holds the content of
\* that answer: the selected model when the first call answered, and 'gpt-4'
\* when the first call failed and the second answered.
C19_ReportedModel ==
  \A r \in Turns :
    (turn[r].pc = "done" /\ turn[r].res.status = 200) =>
      LET c == turn[r].calls
          last == c[Len(c)]
      IN  /\ c # << >>
          /\ last.ok
          /\ \A j \in 1..(Len(c) - 1) : ~c[j].ok
          /\ turn[r].res.model = last.model
          /\ c[1].model = turn[r].model
          /\ c[1].ok => turn[r].res.model = turn[r].model
          /\ ~c[1].ok => (Len(c) = 2 /\ turn[r].res.model = "gpt-4")
          /\ \E i \in written(r, "BOT") :
               /\ messages[i].id = turn[r].res.messageId
               /\ messages[i].content = turn[r].aiResponse.content

\* a turn whose selected model gemini-pro failed has succeeded on the
\* fallback and reports gpt-4
C19_Witness ==
  \E r \in Turns :
    /\ turn[r].res.status = 200
    /\ turn[r].model = "gemini-pro"
    /\ Len(turn[r].calls) = 2
    /\ turn[r].res.model = "gpt-4"

\* C20: every turn that has started ends, with a response or with a failure,
\* whether or not the providers answer.
C20_TurnEnds ==
  \A r \in Turns : (turn[r].pc # "idle") ~> (turn[r].pc = "done")

\* C22: once a turn has ended with success, the updatedAt of its conversation
\* is not earlier than the creation time of the messages the turn wrote.
C22_UpdatedAt ==
  \A r \in Turns :
    (turn[r].pc = "done" /\ turn[r].res.status = 200) =>
      \A i \in 1..Len(messages) :
        messages[i].by = r => findConversation(turn[r].conversation).updatedAt >= i

\* C21: a step changes the status of a conversation only from ACTIVE, and only
\* to CLOSED or PENDING_TRANSFER; a CLOSED conversation stays CLOSED.
C21_StatusMoves ==
  [][\A i \in 1..Len(conversations) :
       conversations'[i].status # conversations[i].status =>
         /\ conversations[i].status = "ACTIVE"
         /\ conversations'[i].status \in {"CLOSED", "PENDING_TRANSFER"}]_vars

\* C23: every step leaves the rows the messages table holds as they are, in
\* their places: it can only add rows after them.
C23_AppendOnly ==
  [][/\ Len(messages') >= Len(messages)
     /\ \A i \in 1..Len(messages) : messages'[i] = messages[i]]_vars

\* a conversation that holds the messages of a turn and the notice of a
\* transfer has been closed
C23_Witness ==
  \E r \in Turns :
    LET c == turn[r].conversation
    IN  /\ turn[r].res.status = 200
        /\ \E i \in 1..Len(messages) : messages[i].by = -2 /\ messages[i].conversationId = c
        /\ Cardinality({ i \in 1..Len(messages) : messages[i].conversationId = c }) = 3
        /\ findConversation(c).status = "CLOSED"
        /\ support.closes > 0

\* C24: after any sequence of signups and billing webhooks every tenant's
\* limits and features are the plan-table values of its current plan, and the
\* table of signup and the table of the webhooks give the same limits and the
\* same features for every plan name, unknown names included.
C24_PlanTables ==
  /\ \A k \in Subscriptions :
       tenants[k].exists =>
         /\ tenants[k].limits = getTenantLimits(tenants[k].plan)
         /\ tenants[k].features = getTenantFeatures(tenants[k].plan)
         /\ tenants[k].limits = webhookTenantLimits(tenants[k].plan)
         /\ tenants[k].features = webhookTenantFeatures(tenants[k].plan)
  /\ \A plan \in AnyPlans :
       /\ getTenantLimits(plan) = webhookTenantLimits(plan)
       /\ getTenantFeatures(plan) = webhookTenantFeatures(plan)

\* a tenant signed up as enterprise and moved to business by a webhook, beside
\* one put back to starter after its subscription was canceled
C24_Witness ==
  /\ tenants[1].exists /\ tenants[1].plan = "business"
  /\ tenants[1].limits.chatbots = 10
  /\ tenants[2].exists /\ tenants[2].plan = "starter"
  /\ tenants[2].subscriptionStatus = "canceled" /\ ~tenants[2].isActive
  /\ tenants[2].limits.conversations = 500

\* malformed input in the words of the claim: an empty message, a message of
\* more than 1000 characters, a conversationId or a widgetId that is no UUID
malformedInput(body) ==
  \/ Len(body.message) = 0
  \/ Len(body.message) > MaxMessage
  \/ body.conversationId # NoId /\ ~isUuid(body.conversationId)
  \/ ~isUuid(body.widgetId)

\* C25 as stated: a POST /message with malformed input ends with the status
\* 400 of the validation error.
C25_ValidationError ==
  \A r \in Turns :
    (turn[r].pc = "done" /\ malformedInput(turn[r].body)) => turn[r].res.status = 400

\* C25: a POST /message with malformed input creates no conversation, writes
\* no message and calls no provider.  It ends with the 400 of the body
\* validation when the widget middleware and the usage pre-check let it reach
\* the validation, with 429 when the pre-check refused it, and with the 400,
\* 404 or 403 of the widget middleware otherwise.
C25_Malformed ==
  \A r \in Turns :
    (turn[r].pc # "idle" /\ malformedInput(turn[r].body)) =>
      /\ turn[r].calls = << >>
      /\ turn[r].conversation = NoId
      /\ turn[r].userMessage = NoId
      /\ \A i \in 1..Len(messages) : messages[i].by # r
      /\ \A i \in 1..Len(conversations) : conversations[i].by # r
      /\ turn[r].pc \in {"validateWidgetAccess", "checkTenantLimits", "done"}
      /\ turn[r].pc = "done" =>
           turn[r].res.status =
             (IF preChecked(r)
                THEN (IF turn[r].limits[LimitType].exceeded THEN 429 ELSE 400)
              ELSE IF turn[r].body.widgetId = NoId THEN 400
              ELSE IF ~widgetExists(turn[r].body.widgetId) THEN 404
              ELSE 403)

\* a message of 1001 characters sent through an active widget of a tenant below
\* its limit was refused by the body validation, beside a created conversation
C25_Witness ==
  \E r \in Turns :
    /\ turn[r].body.message = MsgLong
    /\ isUuid(turn[r].body.widgetId)
    /\ preChecked(r)
    /\ ~turn[r].limits[LimitType].exceeded
    /\ turn[r].res.status = 400
    /\ Len(conversations) > 1
    /\ messages = << >>

\* generateResponse of request r has failed: its last adapter call failed and
\* the handler has answered
generateResponseFailed(r) ==
  /\ turn[r].pc = "done"
  /\ turn[r].calls # << >>
  /\ ~turn[r].calls[Len(turn[r].calls)].ok

\* C26: whatever the provider and whatever the error of its adapter, a failed
\* generateResponse throws the one generic error, and the response of the turn
\* is the 500 with the fixed message, carrying no detail of the provider's
\* error.
C26_GenericFailure ==
  \A r \in Turns :
    generateResponseFailed(r) =>
      /\ turn[r].thrown = GenericAIError
      /\ turn[r].res = [Status(500) EXCEPT !.error = ProcessingErrorText]
      /\ turn[r].res.details = << >>

\* a turn whose first model failed with a provider error that speaks of a
\* limit and whose fallback failed with another error
C26_Witness ==
  \E r \in Turns :
    /\ generateResponseFailed(r)
    /\ Len(turn[r].calls) = 2
    /\ turn[r].calls[1].model # "gpt-4"
    /\ mentions(turn[r].calls[1].error, "límite")
    /\ turn[r].calls[2].error = << "Incorrect", "API", "key", "sk-live" >>
    /\ turn[r].res.status = 500

\* the month of a time on the calendar of a server of the zone
monthOf(date, zone) == (date + zone) \div MonthLength

botRows(r) == { i \in 1..Len(messages) : messages[i].by = r /\ messages[i].sender = "BOT" }

\* C28: when the selector chose gpt-4 and its adapter failed, there is no
\* second attempt: the turn made that one adapter call, has ended with status
\* 500 and wrote no BOT message.
C28_NoRetry ==
  \A r \in Turns :
    (turn[r].model = "gpt-4" /\ turn[r].calls # << >> /\ ~turn[r].calls[1].ok) =>
      /\ Len(turn[r].calls) = 1
      /\ turn[r].calls[1].model = "gpt-4"
      /\ turn[r].pc = "done"
      /\ turn[r].res.status = 500
      /\ botRows(r) = {}

\* a turn of the business tenant whose message is of medium complexity was
\* given gpt-4, the call failed and the turn ended, its USER message kept
C28_Witness ==
  \E r \in Turns :
    /\ turn[r].tenantId = "T2"
    /\ turn[r].model = "gpt-4"
    /\ Len(turn[r].calls) = 1
    /\ ~turn[r].calls[1].ok
    /\ turn[r].res.status = 500
    /\ \E i \in 1..Len(messages) : messages[i].by = r /\ messages[i].sender = "USER"

\* C29: when the insert of the BOT message fails after the adapter returned a
\* reply, the turn ends with the generic status 500; the adapter that answered
\* was the last one called, the insert is not tried again, and the conversation
\* holds the turn's USER message and no BOT message of the turn.
C29_BotSaveFailure ==
  \A r \in Turns :
    (turn[r].thrown = DatabaseError /\ turn[r].aiResponse.content # << >>) =>
      /\ turn[r].pc = "done"
      /\ turn[r].res = [Status(500) EXCEPT !.error = ProcessingErrorText]
      /\ turn[r].calls # << >>
      /\ \A j \in 1..Len(turn[r].calls) : turn[r].calls[j].ok <=> j = Len(turn[r].calls)
      /\ Len(turn[r].calls) <= 2
      /\ turn[r].botMessage = NoId
      /\ botRows(r) = {}
      /\ Cardinality({ i \in 1..Len(messages) :
                         /\ messages[i].by = r
                         /\ messages[i].sender = "USER"
                         /\ messages[i].conversationId = turn[r].conversation
                         /\ messages[i].content = turn[r].body.message }) = 1

\* the fallback model answered after the first model failed, the insert of the
\* reply failed, and the conversation was closed afterwards
C29_Witness ==
  \E r \in Turns :
    /\ turn[r].thrown = DatabaseError
    /\ Len(turn[r].calls) = 2
    /\ turn[r].aiResponse.content = ReplyContent
    /\ turn[r].res.status = 500
    /\ findConversation(turn[r].conversation).status = "CLOSED"
    /\ Len(messages) = 1

\* the widget named by a request cannot serve it: there is no such widget, or
\* the widget, its tenant or its chatbot is inactive
unavailableWidget(w) ==
  /\ w # NoId
  /\ \/ ~widgetExists(w)
     \/ ~findWidget(w).isActive
     \/ ~Tenant[findWidget(w).tenantId].isActive
     \/ ~findWidget(w).chatbot.isActive

\* C30: a POST /message whose widget does not exist or is inactive, whose
\* tenant is inactive or whose chatbot is inactive is rejected: it ends with a
\* status of refusal (404 or 403 from the widget middleware; 429, 400 or 503
\* for an inactive chatbot), resolves and creates no conversation, writes no
\* message and calls no provider.
C30_UnavailableWidget ==
  \A r \in Turns :
    (turn[r].pc # "idle" /\ unavailableWidget(turn[r].body.widgetId)) =>
      LET w == turn[r].body.widgetId
          early == ~widgetExists(w) \/ ~findWidget(w).isActive
                     \/ ~Tenant[findWidget(w).tenantId].isActive
      IN  /\ turn[r].calls = << >>
          /\ turn[r].conversation = NoId
          /\ ~turn[r].created
          /\ \A i \in 1..Len(messages) : messages[i].by # r
          /\ \A i \in 1..Len(conversations) : conversations[i].by # r
          /\ turn[r].pc \in {"validateWidgetAccess", "checkTenantLimits", "done"}
          /\ early => turn[r].pc \in {"validateWidgetAccess", "done"}
          /\ turn[r].pc = "done" =>
               turn[r].res.status \in (IF early THEN {404, 403} ELSE {429, 400, 503})

\* a well-formed request through the widget of the inactive chatbot passed the
\* widget middleware and the usage pre-check and was refused with status 503
C30_Witness ==
  \E r \in Turns :
    /\ turn[r].body.widgetId = Uuid(6)
    /\ ~findWidget(Uuid(6)).chatbot.isActive
    /\ chatMessageSchema(turn[r].body)
    /\ preChecked(r)
    /\ turn[r].res.status = 503
    /\ messages = << >>

\* at least one request when none was seen in the window
atLeastOne(n) == IF n >= 1 THEN n ELSE 1

\* C31 as stated: with conversations created by turns only, a tenant with a
\* positive conversations limit never has more than limit + N - 1
\* conversations, N being the largest number of requests that were at one time
\* between their admission by the pre-check and the creation of their
\* conversation.
C31_MarginOfAdmitted ==
  \A t \in TenantIds :
    Tenant[t].limits.conversations > 0 =>
      countConversations(t) <= Tenant[t].limits.conversations + atLeastOne(window.admitted) - 1

\* C31: with conversations created by turns only, a tenant with a positive
\* conversations limit never has more than limit + N - 1 conversations, N
\* being the largest number of requests that were at one time between their
\* read of the conversation count and the creation of their conversation.
C31_MarginOfCounting ==
  \A t \in TenantIds :
    Tenant[t].limits.conversations > 0 =>
      countConversations(t) <= Tenant[t].limits.conversations + atLeastOne(window.counting) - 1

\* two requests of the tenant with limit 2 read the count 1 before either
\* created its conversation, and the tenant has three conversations
C31_Witness ==
  /\ countConversations("T1") = Tenant["T1"].limits.conversations + 1
  /\ window.counting = 2
  /\ \A r \in Turns : turn[r].created /\ turn[r].conversationCount = 1

\* request r created its conversation and then failed
failedAfterCreation(r) ==
  turn[r].created /\ turn[r].pc = "done" /\ turn[r].res.status # 200

\* C32: a turn that named no conversation and failed after it had created one
\* (the adapters failed, or the insert of the USER or of the BOT message
\* failed) leaves that conversation in the table: the failing step changes no
\* conversation, the row is ACTIVE unless a close or transfer request changed
\* it, and it is among the conversations counted for the tenant's month.
C32_CreationKept ==
  /\ [](\A r \in Turns :
          failedAfterCreation(r) =>
            \E i \in 1..Len(conversations) :
              /\ conversations[i].id = turn[r].conversation
              /\ conversations[i].by = r
              /\ conversations[i].tenantId = turn[r].tenantId
              /\ conversations[i].createdAt >= currentMonth(now, ServerZone)
              /\ support = NoSupport => conversations[i].status = "ACTIVE"
              /\ countConversations(turn[r].tenantId)
                   = 1 + Cardinality({ j \in 1..Len(conversations) :
                                         /\ j # i
                                         /\ conversations[j].tenantId = turn[r].tenantId }))
  /\ [][\A r \in Turns :
          (turn[r].created /\ turn[r].pc # "done" /\ turn'[r].pc = "done"
             /\ turn'[r].res.status # 200)
            => conversations' = conversations]_vars

\* a turn created its conversation and its USER message, both adapters failed,
\* and the tenant's count for the month is 2, the new conversation included
C32_Witness ==
  \E r \in Turns :
    /\ failedAfterCreation(r)
    /\ Len(turn[r].calls) = 2
    /\ turn[r].tenantId = "T1"
    /\ turn[r].userMessage # NoId
    /\ support = NoSupport
    /\ findConversation(turn[r].conversation).status = "ACTIVE"
    /\ countConversations("T1") = 2

\* request r names a conversation that exists and is of the tenant of its widget
namesOwnConversation(r) ==
  LET id == turn[r].body.conversationId
  IN  /\ id # NoId
      /\ conversationExists(id)
      /\ findConversation(id).tenantId = turn[r].tenantId

\* C33: the conversations gate does not ask whether the turn would create a
\* conversation: a request that names an existing conversation of its tenant
\* and whose pre-check read a count at or above the tenant's positive limit has
\* ended with status 429, without looking the conversation up and without
\* writing to it.
C33_GateOnExisting ==
  \A r \in Turns :
    LET limit == Tenant[turn[r].tenantId].limits.conversations
    IN  (namesOwnConversation(r) /\ preChecked(r) /\ limit > 0
           /\ turn[r].conversationCount >= limit) =>
          /\ turn[r].pc = "done"
          /\ turn[r].res.status = 429
          /\ turn[r].conversation = NoId
          /\ turn[r].userMessage = NoId
          /\ turn[r].calls = << >>
          /\ \A i \in 1..Len(messages) : messages[i].by # r

\* a first turn on the tenant's conversation was served; after the tenant's
\* second conversation was created, a turn on the first one was refused
C33_Witness ==
  \E r \in Turns, q \in Turns :
    /\ turn[q].res.status = 200
    /\ turn[q].conversation = SeedConversation.id
    /\ turn[r].body.conversationId = SeedConversation.id
    /\ turn[r].body.message # << >>
    /\ turn[r].tenantId = SeedConversation.tenantId
    /\ turn[r].res.status = 429
    /\ turn[r].res.used = 2

\* the rows of request r in its conversation, by sender
rowsBy(r, sender) ==
  { i \in 1..Len(messages) :
      /\ messages[i].by = r
      /\ messages[i].sender = sender
      /\ messages[i].conversationId = turn[r].conversation }

\* C34: the turn does not look at the status of its conversation.  The lookup
\* of a request that names a conversation of its tenant accepts it whatever
\* its status, the next step appends the USER message or fails on the insert,
\* no step of a turn changes the status of a conversation, and a turn that
\* succeeded has its USER and its BOT message in the conversation.
C34_StatusIgnored ==
  /\ [][\A r \in Turns :
          turn'[r] # turn[r] =>
            /\ \A i \in 1..Len(conversations) :
                 conversations'[i].status = conversations[i].status
            /\ (turn[r].pc = "resolveConversation" /\ namesOwnConversation(r)) =>
                 /\ turn'[r].pc = "saveUserMessage"
                 /\ turn'[r].conversation = turn[r].body.conversationId
            /\ (turn[r].pc = "saveUserMessage" /\ turn'[r].pc # "done") =>
                 /\ Len(messages') = Len(messages) + 1
                 /\ messages'[Len(messages')].conversationId = turn[r].conversation
                 /\ messages'[Len(messages')].sender = "USER"
                 /\ messages'[Len(messages')].content = turn[r].body.message]_vars
  /\ [](\A r \in Turns :
          (turn[r].pc = "done" /\ turn[r].res.status = 200) =>
            /\ Cardinality(rowsBy(r, "USER")) = 1
            /\ Cardinality(rowsBy(r, "BOT")) = 1)

\* the conversation was closed before the turn wrote its first message, the
\* turn succeeded, and the conversation is still CLOSED
C34_Witness ==
  \E r \in Turns :
    /\ turn[r].pc = "done"
    /\ turn[r].res.status = 200
    /\ turn[r].conversation = SeedConversation.id
    /\ findConversation(SeedConversation.id).status = "CLOSED"
    /\ findConversation(SeedConversation.id).updatedAt = 0
    /\ support = [NoSupport EXCEPT !.closes = 1]
    /\ Len(messages) = 2

\* the row of the policy table for a plan: the models the selector can return
policyRow(plan) == { selectModelForTenant(plan, c) : c \in Complexities }

\* C35: the adapter call that produced the reply of a turn was made with the
\* model the policy gives for the tenant's plan and the message's complexity,
\* or with gpt-4.  A turn of a starter tenant whose gemini-pro call failed got
\* its reply from gpt-4, which is not in the starter row of the policy table.
C35_Producer ==
  \A r \in Turns :
    turn[r].aiResponse.content # << >> =>
      LET c == turn[r].calls
          last == c[Len(c)]
          plan == Tenant[turn[r].tenantId].plan
          policy == selectModelForTenant(plan, detectComplexity(turn[r].body.message))
      IN  /\ last.ok
          /\ last.model \in {policy, "gpt-4"}
          /\ turn[r].aiResponse.model = last.model
          /\ (plan = "starter" /\ Len(c) = 2) =>
               /\ c[1].model = "gemini-pro"
               /\ ~c[1].ok
               /\ last.model = "gpt-4"
               /\ last.model \notin policyRow("starter")

\* a turn of the starter tenant was answered by gpt-4 after gemini-pro failed,
\* and the reply is stored
C35_Witness ==
  \E r \in Turns :
    /\ Len(turn[r].calls) = 2
    /\ Tenant[turn[r].tenantId].plan = "starter"
    /\ turn[r].calls[1].model = "gemini-pro"
    /\ turn[r].calls[2].model = "gpt-4"
    /\ turn[r].res.status = 200
    /\ turn[r].res.model = "gpt-4"
    /\ rowsBy(r, "BOT") # {}

\* C36: the model chosen for a turn is a function of the tenant's plan and the
\* complexity of the message: for two widgets of one tenant that differ only in
\* the model configured for their chatbot, the same message gets the same
\* model, the one of the policy table.
C36_ConfiguredModelIgnored ==
  probe.called = 2 =>
    /\ probe.models[1] = probe.models[2]
    /\ probe.models[1] = selectModelForTenant(Tenant[probe.first.tenantId].plan,
                                              detectComplexity(probe.message))

\* the chatbots of the business tenant are configured with claude-3.5-sonnet
\* and with gemini-pro, and a message of medium complexity gets gpt-4 from both
C36_Witness ==
  /\ probe.called = 2
  /\ probe.first.tenantId = "T2"
  /\ probe.first.chatbot.model = "claude-3.5-sonnet"
  /\ probe.second.chatbot.model = "gemini-pro"
  /\ [probe.first EXCEPT !.chatbot.model = "gemini-pro"] = probe.second
  /\ detectComplexity(probe.message) = "medium"
  /\ probe.models = << "gpt-4", "gpt-4" >>

(* ---------------------------------------------------------------------- *)
(* generateResponse: unsupported identifiers and the latency reported      *)
(* ---------------------------------------------------------------------- *)
\* the four models generateResponse has a case for
fourModels == {"gpt-4", "gpt-4-turbo", "claude-3.5-sonnet", "gemini-pro"}

\* generateResponse of turn r has returned or thrown
generated(r) == turn[r].pc # "generateResponse"

\* C37: generateResponse called with an identifier that is none of the four
\* models calls no adapter for it; the only adapter call is one call of gpt-4,
\* and the call returns gpt-4's answer or throws because gpt-4 failed
C37_UnsupportedFallsBack ==
  \A r \in Turns :
    turn[r].model \notin fourModels =>
      /\ Len(turn[r].calls) <= 1
      /\ \A j \in 1..Len(turn[r].calls) : turn[r].calls[j].model = "gpt-4"
      /\ generated(r) =>
           /\ Len(turn[r].calls) = 1
           /\ IF turn[r].calls[1].ok
                THEN /\ turn[r].thrown = << >>
                     /\ turn[r].aiResponse.content = ReplyContent
                     /\ turn[r].aiResponse.model = "gpt-4"
                ELSE /\ turn[r].thrown = GenericAIError
                     /\ turn[r].aiResponse.content = << >>

\* a call with an unsupported identifier answered by gpt-4, and another whose
\* gpt-4 call failed
C37_Witness ==
  \E r, q \in Turns :
    /\ turn[r].model \notin fourModels
    /\ turn[q].model \notin fourModels
    /\ generated(r) /\ generated(q)
    /\ turn[r].calls[1].ok
    /\ ~turn[q].calls[1].ok

\* C38: the responseTime of an answer the fallback model gave is the time its
\* own adapter call took; the time of the failed first attempt is not in it
C38_FallbackLatency ==
  \A r \in Turns :
    (Len(turn[r].calls) = 2 /\ turn[r].calls[2].ok) =>
      /\ turn[r].aiResponse.model = FallbackModel
      /\ turn[r].aiResponse.responseTime = turn[r].calls[2].took
      /\ turn[r].aiResponse.responseTime = turn[r].clock - turn[r].calls[1].took

\* a fallback answer after a first attempt that took longer than the fallback
C38_Witness ==
  \E r \in Turns :
    /\ Len(turn[r].calls) = 2
    /\ turn[r].calls[2].ok
    /\ turn[r].calls[1].took > turn[r].calls[2].took
    /\ turn[r].aiResponse.responseTime = turn[r].calls[2].took

====
